---- MODULE Spec2Model ----
(***************************************************************************)
(* Model of core/views.py: the SAT upsert importer (sat_importar) and the  *)
(* Questor x SAT reconciliation (comparar_questor) with the normalisers    *)
(* they use.                                                               *)
(*                                                                         *)
(* Python strings are sequences of one-character strings, Python None is   *)
(* the one-element sequence NoneV, and a missing date is NoDate.           *)
(***************************************************************************)
EXTENDS Integers, Sequences, FiniteSets, TLC

\* ------------------------------------------------------------------
\* Strings
\* ------------------------------------------------------------------

NoneV == <<"NONE">>

DigitChars == <<"0","1","2","3","4","5","6","7","8","9">>
UpperChars == <<"A","B","C","D","E","F","G","H","I","J","K","L","M",
                "N","O","P","Q","R","S","T","U","V","W","X","Y","Z">>
LowerChars == <<"a","b","c","d","e","f","g","h","i","j","k","l","m",
                "n","o","p","q","r","s","t","u","v","w","x","y","z">>

IsDigit(c) == \E i \in 1..10 : DigitChars[i] = c

DigitVal(c) == (CHOOSE i \in 1..10 : DigitChars[i] = c) - 1

LowerCh(c) ==
    IF \E i \in 1..26 : UpperChars[i] = c
    THEN LowerChars[CHOOSE i \in 1..26 : UpperChars[i] = c]
    ELSE c

UpperCh(c) ==
    IF \E i \in 1..26 : LowerChars[i] = c
    THEN UpperChars[CHOOSE i \in 1..26 : LowerChars[i] = c]
    ELSE c

\* str.lower() / str.upper()
Lower(s) == [i \in 1..Len(s) |-> LowerCh(s[i])]
Upper(s) == [i \in 1..Len(s) |-> UpperCh(s[i])]

\* s[i:j] with 1-based inclusive bounds; empty when i > j
Slice(s, i, j) == IF i > j THEN <<>> ELSE SubSeq(s, i, j)

\* str.strip(): whitespace is the blank
Strip(s) ==
    IF \A i \in 1..Len(s) : s[i] = " " THEN <<>>
    ELSE LET a == CHOOSE i \in 1..Len(s) :
                     s[i] # " " /\ \A k \in 1..(i-1) : s[k] = " "
             b == CHOOSE i \in 1..Len(s) :
                     s[i] # " " /\ \A k \in (i+1)..Len(s) : s[k] = " "
         IN  SubSeq(s, a, b)

\* "c in s" for strings: c occurs in s as a contiguous run
Contains(s, c) ==
    \E i \in 1..(Len(s) - Len(c) + 1) : SubSeq(s, i, i + Len(c) - 1) = c

\* the characters of s that satisfy keep, in order
RECURSIVE FilterDigits(_)
FilterDigits(s) ==
    IF s = <<>> THEN <<>>
    ELSE IF IsDigit(Head(s)) THEN <<Head(s)>> \o FilterDigits(Tail(s))
    ELSE FilterDigits(Tail(s))

\* s.replace(c, "") for a one-character c
RECURSIVE RemoveCh(_, _)
RemoveCh(s, c) ==
    IF s = <<>> THEN <<>>
    ELSE IF Head(s) = c THEN RemoveCh(Tail(s), c)
    ELSE <<Head(s)>> \o RemoveCh(Tail(s), c)

\* s.replace(a, b) for one-character a and b
ReplaceCh(s, a, b) == [i \in 1..Len(s) |-> IF s[i] = a THEN b ELSE s[i]]

\* str.isdigit()
IsDigitStr(s) == s # <<>> /\ \A i \in 1..Len(s) : IsDigit(s[i])

\* int(s) for a string of digits
RECURSIVE IntOf(_)
IntOf(s) ==
    IF s = <<>> THEN 0
    ELSE 10 * IntOf(SubSeq(s, 1, Len(s) - 1)) + DigitVal(s[Len(s)])

\* ------------------------------------------------------------------
\* Dates (datetime.date) and _parse_date_any
\* ------------------------------------------------------------------

NoDate == [y |-> 0, m |-> 0, d |-> 0]

MkDate(y, m, d) == [y |-> y, m |-> m, d |-> d]

IsLeap(y) == (y % 4 = 0 /\ y % 100 # 0) \/ y % 400 = 0

DaysInMonth(y, m) ==
    IF m = 2 THEN (IF IsLeap(y) THEN 29 ELSE 28)
    ELSE IF m \in {4, 6, 9, 11} THEN 30 ELSE 31

\* the datetime constructor accepts the fields
ValidDate(y, m, d) ==
    /\ y \in 1..9999
    /\ m \in 1..12
    /\ d >= 1 /\ d <= DaysInMonth(y, m)

\* a <= b on dates
DateLE(a, b) ==
    \/ a.y < b.y
    \/ a.y = b.y /\ a.m < b.m
    \/ a.y = b.y /\ a.m = b.m /\ a.d <= b.d

\* date(1899, 12, 30) + timedelta(days=n)
SerialToDate(n) ==
    LET z    == n - 25569 + 719468
        era  == z \div 146097
        doe  == z - era * 146097
        yoe  == (doe - (doe \div 1460) + (doe \div 36524) - (doe \div 146096)) \div 365
        doy  == doe - (365 * yoe + (yoe \div 4) - (yoe \div 100))
        mp   == (5 * doy + 2) \div 153
        dd   == doy - ((153 * mp + 2) \div 5) + 1
        mm   == IF mp < 10 THEN mp + 3 ELSE mp - 9
        yy   == yoe + era * 400 + (IF mm <= 2 THEN 1 ELSE 0)
    IN  MkDate(yy, mm, dd)

\* _DT_FMTS, each format as its directives (letters) and literal characters
DT_FMTS == <<
    <<"d","/","m","/","y">>,
    <<"d","/","m","/","Y">>,
    <<"Y","-","m","-","d">>,
    <<"d","-","m","-","Y">>,
    <<"d",".","m",".","Y">>,
    <<"Y","-","m","-","d"," ","H",":","M">>,
    <<"Y","-","m","-","d"," ","H",":","M",":","S">>,
    <<"d","/","m","/","Y"," ","H",":","M">>,
    <<"d","/","m","/","Y"," ","H",":","M",":","S">>,
    <<"d","/","m","/","y"," ","H",":","M">>,
    <<"d","/","m","/","y"," ","H",":","M",":","S">>
>>

IsDirective(t) == t \in {"d", "m", "y", "Y", "H", "M", "S"}

\* the widths a directive's pattern can consume
DirWidths(t) ==
    IF t = "Y" THEN {4} ELSE IF t = "y" THEN {2} ELSE {1, 2}

\* the text w is matched by the pattern of directive t (strptime's regexes)
\* (%d also takes a blank and a digit 1-9; a second of 60 or 61 passes the
\* pattern and is refused by the datetime constructor)
DirMatches(t, w) ==
    \/ /\ IsDigitStr(w)
       /\ LET v == IntOf(w) IN
          CASE t = "d" -> v \in 1..31
            [] t = "m" -> v \in 1..12
            [] t = "y" -> TRUE
            [] t = "Y" -> TRUE
            [] t = "H" -> v \in 0..23
            [] t = "M" -> v \in 0..59
            [] t = "S" -> v \in 0..59
    \/ /\ t = "d" /\ Len(w) = 2 /\ w[1] = " "
       /\ IsDigit(w[2]) /\ w[2] # "0"

\* the fields strptime has read so far
StrpSet(acc, t, w) ==
    LET v == IntOf(FilterDigits(w)) IN
    CASE t = "d" -> [acc EXCEPT !.d = v]
      [] t = "m" -> [acc EXCEPT !.m = v]
      [] t = "y" -> [acc EXCEPT !.y = IF v < 69 THEN 2000 + v ELSE 1900 + v]
      [] t = "Y" -> [acc EXCEPT !.y = v]
      [] OTHER   -> acc

\* every way format fmt[j..] matches the whole of s[i..]
RECURSIVE StrpFrom(_, _, _, _, _)
StrpFrom(s, i, fmt, j, acc) ==
    IF j > Len(fmt) THEN (IF i > Len(s) THEN {acc} ELSE {})
    ELSE LET t == fmt[j] IN
         IF IsDirective(t)
         THEN UNION { StrpFrom(s, i + n, fmt, j + 1, StrpSet(acc, t, SubSeq(s, i, i + n - 1)))
                      : n \in { k \in DirWidths(t) :
                                  /\ i + k - 1 <= Len(s)
                                  /\ DirMatches(t, SubSeq(s, i, i + k - 1)) } }
         ELSE IF t = " "
         THEN UNION { StrpFrom(s, i + n, fmt, j + 1, acc)
                      : n \in { k \in 1..(Len(s) - i + 1) :
                                  \A q \in i..(i + k - 1) : s[q] = " " } }
         ELSE IF i <= Len(s) /\ s[i] = t
              THEN StrpFrom(s, i + 1, fmt, j + 1, acc)
              ELSE {}

\* some element of R, NoDate when R is empty
PickDate(R) == IF R = {} THEN NoDate ELSE CHOOSE r \in R : TRUE

\* datetime.strptime(s, fmt).date(), NoDate when it raises
Strptime(s, fmt) ==
    PickDate({ r \in StrpFrom(s, 1, fmt, 1, NoDate) : ValidDate(r.y, r.m, r.d) })

\* s.split(".")[0]
BeforeDot(s) ==
    IF \E i \in 1..Len(s) : s[i] = "."
    THEN Slice(s, 1, (CHOOSE i \in 1..Len(s) :
                         s[i] = "." /\ \A k \in 1..(i-1) : s[k] # ".") - 1)
    ELSE s

\* the first date of ds that is one, NoDate if none is
FirstParsed(ds) ==
    IF \E f \in 1..Len(ds) : ds[f] # NoDate
    THEN ds[CHOOSE f \in 1..Len(ds) :
               ds[f] # NoDate /\ \A g \in 1..(f-1) : ds[g] = NoDate]
    ELSE NoDate

\* the loop over _DT_FMTS: the first format, in order, that parses s_norm
FirstFmtDate(s_norm) ==
    FirstParsed([f \in 1..Len(DT_FMTS) |-> Strptime(s_norm, DT_FMTS[f])])

\* the serial-number branch: n days after 1899-12-30 for 20000 <= n <= 80000
\* (longer digit strings are out of the range)
SerialBranch(s) ==
    IF IsDigitStr(s) /\ Len(s) <= 9
    THEN (IF IntOf(s) >= 20000 /\ IntOf(s) <= 80000 THEN SerialToDate(IntOf(s)) ELSE NoDate)
    ELSE NoDate

\* the format loop's date if it found one, else the serial branch's
FmtOrSerial(byFmt, s) == IF byFmt # NoDate THEN byFmt ELSE SerialBranch(s)

\* _parse_date_any on the stripped text s
ParseDateStripped(s) ==
    IF s = <<>> THEN NoDate
    ELSE FmtOrSerial(FirstFmtDate(BeforeDot(RemoveCh(ReplaceCh(s, "T", " "), "Z"))), s)

\* _parse_date_any(v) for v None or a string
_parse_date_any(v) == IF v = NoneV THEN NoDate ELSE ParseDateStripped(Strip(v))

\* _competencia_from_date(d)
_competencia_from_date(d) == IF d = NoDate THEN NoDate ELSE MkDate(d.y, d.m, 1)

\* ------------------------------------------------------------------
\* Header slugs, dicts and _first_key
\* ------------------------------------------------------------------

IsWordCh(c) ==
    \/ IsDigit(c)
    \/ c = "_"
    \/ \E i \in 1..26 : LowerChars[i] = c \/ UpperChars[i] = c

\* re.sub(r"[^\w]+", "_", s): every run of non-word characters becomes one "_"
RECURSIVE SubNonWord(_, _)
SubNonWord(s, inRun) ==
    IF s = <<>> THEN <<>>
    ELSE IF IsWordCh(Head(s)) THEN <<Head(s)>> \o SubNonWord(Tail(s), FALSE)
    ELSE IF inRun THEN SubNonWord(Tail(s), TRUE)
    ELSE <<"_">> \o SubNonWord(Tail(s), TRUE)

\* s.strip("_")
StripUnderscore(s) ==
    IF \A i \in 1..Len(s) : s[i] = "_" THEN <<>>
    ELSE LET a == CHOOSE i \in 1..Len(s) :
                     s[i] # "_" /\ \A k \in 1..(i-1) : s[k] = "_"
             b == CHOOSE i \in 1..Len(s) :
                     s[i] # "_" /\ \A k \in (i+1)..Len(s) : s[k] = "_"
         IN  SubSeq(s, a, b)

ReservedNames == {
    <<"c","l","a","s","s">>,
    <<"d","e","f">>,
    <<"r","e","t","u","r","n">>,
    <<"y","i","e","l","d">>,
    <<"f","r","o","m">>,
    <<"i","m","p","o","r","t">>,
    <<"g","l","o","b","a","l">>,
    <<"l","a","m","b","d","a">>,
    <<"w","i","t","h">>,
    <<"p","a","s","s">>,
    <<"r","a","i","s","e">>,
    <<"i","d">>,
    <<"p","k">>,
    <<"m","o","d","e","l">>,
    <<"o","b","j","e","c","t","s">>
}

s_campo == <<"c","a","m","p","o">>
s_col_ == <<"c","o","l","_">>
s__field == <<"_","f","i","e","l","d">>

\* _slug(s) on ASCII text (NFKD and the ascii encoding leave ASCII unchanged)
_slug(s) ==
    LET n == StripUnderscore(SubNonWord(Lower(Strip(IF s = NoneV THEN <<"N","o","n","e">> ELSE s)), FALSE))
    IN  IF n = <<>> THEN s_campo ELSE n

\* _slugify_field(name) on ASCII text
_slugify_field(name) ==
    LET n0 == IF name = NoneV THEN <<>> ELSE name
        n1 == StripUnderscore(SubNonWord(Lower(Strip(n0)), FALSE))
        n2 == IF n1 = <<>> THEN s_campo ELSE n1
        n3 == IF IsDigit(n2[1]) THEN s_col_ \o n2 ELSE n2
    IN  IF n3 \in ReservedNames THEN n3 \o s__field ELSE n3

\* A dict is the sequence of its <<key, value>> items in insertion order.
DictKeys(d) == [i \in 1..Len(d) |-> d[i][1]]

DictHas(d, k) == \E i \in 1..Len(d) : d[i][1] = k

\* d.get(k): None when k is missing (or when k is None)
DictGet(d, k) ==
    IF DictHas(d, k) THEN d[CHOOSE i \in 1..Len(d) : d[i][1] = k][2] ELSE NoneV

\* d[k] = v: a key that is already there keeps its place
DictSet(d, k, v) ==
    IF DictHas(d, k)
    THEN [i \in 1..Len(d) |-> IF d[i][1] = k THEN <<k, v>> ELSE d[i]]
    ELSE Append(d, <<k, v>>)

\* the index of the first element of seq that satisfies the test, 0 if none
FirstIdx(seq, Test(_)) ==
    IF \E i \in 1..Len(seq) : Test(seq[i])
    THEN CHOOSE i \in 1..Len(seq) : Test(seq[i]) /\ \A k \in 1..(i-1) : ~Test(seq[k])
    ELSE 0

\* low_map = {k.lower(): k for k in d.keys()}
LowMap(keys) ==
    LET RECURSIVE Build(_, _)
        Build(i, acc) ==
            IF i > Len(keys) THEN acc
            ELSE Build(i + 1, DictSet(acc, Lower(keys[i]), keys[i]))
    IN  Build(1, <<>>)

\* the second loop of _first_key: the key found by the first candidate that is
\* contained in some lower-cased key
SubstrKey(low_map, candidates) ==
    LET SubHit(c) == \E i \in 1..Len(low_map) : Contains(low_map[i][1], c)
        HasC(it)  == Contains(it[1], candidates[FirstIdx(candidates, SubHit)])
    IN  IF FirstIdx(candidates, SubHit) # 0
        THEN low_map[FirstIdx(low_map, HasC)][2]
        ELSE NoneV

\* _first_key(d, candidates) over the keys of d, in their order; None if no hit
_first_key(keys, candidates) ==
    LET InKeys(c) == \E i \in 1..Len(keys) : keys[i] = c
    IN  IF FirstIdx(candidates, InKeys) # 0
        THEN candidates[FirstIdx(candidates, InKeys)]
        ELSE SubstrKey(LowMap(keys), candidates)

CANDS_DATA_EMISSAO == <<
    <<"d","a","t","a","e","m","i","s","s","a","o">>,
    <<"d","a","t","a","_","e","m","i","s","s","a","o">>,
    <<"d","t","_","e","m","i","s","s","a","o">>,
    <<"e","m","i","s","s","a","o">>,
    <<"e","m","i","s","s","a","o","_","d","a","t","a">>,
    <<"d","a","t","a","e","m","i","s","s","a","o","n","f">>,
    <<"d","a","t","a","_","e","m","i","s","s","a","o","_","n","f">>,
    <<"d","a","t","a">>,
    <<"d","t","e","m","i","s","s","a","o">>,
    <<"d","a","t","a","_","e","n","t","r","a","d","a","_","s","a","i","d","a">>,
    <<"d","a","t","a","_","e","n","t","r","a","d","a">>,
    <<"d","a","t","a","_","s","a","i","d","a">>,
    <<"d","t","_","e","n","t","r","a","d","a">>,
    <<"d","t","_","s","a","i","d","a">>,
    <<"d","a","t","a","e","n","t","r","a","d","a","s","a","i","d","a">>
>>

\* _extr_data_emissao_dict(d)
GetDate(d, k) == IF k # NoneV THEN _parse_date_any(DictGet(d, k)) ELSE NoDate
_extr_data_emissao_dict(d) == GetDate(d, _first_key(DictKeys(d), CANDS_DATA_EMISSAO))

\* _parse_competencia_str(s): "YYYY-MM" or "MM/YYYY", None when it does not parse
\* (int() is taken on unsigned digit strings)
_parse_competencia_str(s) ==
    IF s = NoneV \/ s = <<>> THEN NoDate
    ELSE LET t    == Strip(s)
             Cut(c) == CHOOSE i \in 1..Len(t) : t[i] = c /\ \A k \in 1..(i-1) : t[k] # c
             Mk(y, m) == IF IsDigitStr(Strip(y)) /\ IsDigitStr(Strip(m))
                            /\ ValidDate(IntOf(Strip(y)), IntOf(Strip(m)), 1)
                         THEN MkDate(IntOf(Strip(y)), IntOf(Strip(m)), 1)
                         ELSE NoDate
         IN  IF Contains(t, <<"-">>)
             THEN Mk(Slice(t, 1, Cut("-") - 1), Slice(t, Cut("-") + 1, Len(t)))
             ELSE IF Contains(t, <<"/">>)
             THEN Mk(Slice(t, Cut("/") + 1, Len(t)), Slice(t, 1, Cut("/") - 1))
             ELSE NoDate


\* ------------------------------------------------------------------
\* decimal.Decimal and _parse_decimal
\* ------------------------------------------------------------------

\* a finite Decimal is (-1)^sg * c * 10^e; c = -1 stands for a quiet NaN and
\* c = -4 for a signaling one (e is the payload), c = -2 for an infinity and
\* c = -3 for no Decimal at all: the operation raised InvalidOperation.
\* Coefficients stay far below the context's 28 digits.
Dec(sg, c, e) == [sg |-> sg, c |-> c, e |-> e]
DecZero == Dec(0, 0, 0)
DecInf(sg) == Dec(sg, -2, 0)
DecInvalid == Dec(0, -3, 0)

RECURSIVE Pow10(_)
Pow10(n) == IF n <= 0 THEN 1 ELSE 10 * Pow10(n - 1)

MinOf2(a, b) == IF a <= b THEN a ELSE b
Abs(n) == IF n < 0 THEN 0 - n ELSE n

\* the signed integer c * 10^(e - to) of a finite Decimal, for to <= e
Scaled(d, to) == (IF d.sg = 1 THEN 0 - d.c ELSE d.c) * Pow10(d.e - to)

\* the sum a + b at exponent e, from the scaled integer n; a zero sum is
\* negative only when both operands are
SumAt(n, e, a, b) ==
    IF n = 0 THEN Dec(IF a.sg = 1 /\ b.sg = 1 THEN 1 ELSE 0, 0, e)
    ELSE Dec(IF n < 0 THEN 1 ELSE 0, Abs(n), e)

SumFinite(a, b, e) == SumAt(Scaled(a, e) + Scaled(b, e), e, a, b)

\* Decimal.__add__ (a NaN operand gives NaN; infinities of opposite sign are
\* an InvalidOperation, which the default context traps)
DecAdd(a, b) ==
    IF a.c = -3 \/ b.c = -3 \/ a.c = -4 \/ b.c = -4 THEN DecInvalid
    ELSE IF a.c = -1 THEN a
    ELSE IF b.c = -1 THEN b
    ELSE IF a.c = -2 /\ b.c = -2 THEN (IF a.sg = b.sg THEN a ELSE DecInvalid)
    ELSE IF a.c = -2 THEN a
    ELSE IF b.c = -2 THEN b
    ELSE SumFinite(a, b, MinOf2(a.e, b.e))

\* bool(d): only a zero is falsy
DecTruthy(d) == d.c # 0

\* d != 0
DecNonZero(d) == d.c # 0

\* str(n) for n >= 0
RECURSIVE NatStr(_)
NatStr(n) ==
    IF n < 10 THEN <<DigitChars[n + 1]>>
    ELSE NatStr(n \div 10) \o <<DigitChars[(n % 10) + 1]>>

Zeros(n) == [i \in 1..n |-> "0"]

\* Decimal.__str__ of a finite value with digits ds, exponent e and
\* leftdigits = e + len(ds)
FiniteStr(ds, e, left) ==
    IF e <= 0 /\ left > -6
    THEN (IF left <= 0 THEN <<"0", ".">> \o Zeros(0 - left) \o ds
          ELSE IF left >= Len(ds) THEN ds \o Zeros(left - Len(ds))
          ELSE SubSeq(ds, 1, left) \o <<".">> \o SubSeq(ds, left + 1, Len(ds)))
    ELSE (IF Len(ds) = 1 THEN ds ELSE <<ds[1], ".">> \o SubSeq(ds, 2, Len(ds)))
         \o (IF left = 1 THEN <<>>
             ELSE <<"E", IF left - 1 < 0 THEN "-" ELSE "+">> \o NatStr(Abs(left - 1)))

DigitsStr(ds, e) == FiniteStr(ds, e, e + Len(ds))

\* str(d)
DecStr(d) ==
    (IF d.sg = 1 THEN <<"-">> ELSE <<>>) \o
    (IF d.c = -1 THEN <<"N","a","N">> \o (IF d.e > 0 THEN NatStr(d.e) ELSE <<>>)
     ELSE IF d.c = -4 THEN <<"s","N","a","N">> \o (IF d.e > 0 THEN NatStr(d.e) ELSE <<>>)
     ELSE IF d.c = -2 THEN <<"I","n","f","i","n","i","t","y">>
     ELSE DigitsStr(NatStr(d.c), d.e))

\* the index of the first character of s at or after i that is no digit
RECURSIVE DigitsEnd(_, _)
DigitsEnd(s, i) ==
    IF i <= Len(s) /\ IsDigit(s[i]) THEN DigitsEnd(s, i + 1) ELSE i

IsSign(c) == c = "+" \/ c = "-"

\* the exponent part s[i..]: "" or E, an optional sign and digits up to the
\* end; <<exponent>>, or <<>> when the part is malformed
ExpPart(s, i) ==
    IF i > Len(s) THEN <<0>>
    ELSE IF LowerCh(s[i]) # "e" THEN <<>>
    ELSE IF i + 1 <= Len(s) /\ IsSign(s[i + 1])
         THEN (IF IsDigitStr(Slice(s, i + 2, Len(s)))
               THEN (IF s[i + 1] = "-" THEN <<0 - IntOf(Slice(s, i + 2, Len(s)))>>
                     ELSE <<IntOf(Slice(s, i + 2, Len(s)))>>)
               ELSE <<>>)
         ELSE (IF IsDigitStr(Slice(s, i + 1, Len(s)))
               THEN <<IntOf(Slice(s, i + 1, Len(s)))>>
               ELSE <<>>)

\* the number with integer digits intpart and fraction digits frac; exp is
\* the exponent part
FiniteOf(sg, intpart, frac, exp) ==
    IF exp = <<>> \/ (intpart = <<>> /\ frac = <<>>) THEN DecInvalid
    ELSE Dec(sg, IntOf(intpart \o frac), exp[1] - Len(frac))

\* the numeric string s from index a (after the sign), whose integer digits
\* end before index b
NumberFrom(s, sg, a, b) ==
    IF b <= Len(s) /\ s[b] = "."
    THEN FiniteOf(sg, Slice(s, a, b - 1), Slice(s, b + 1, DigitsEnd(s, b + 1) - 1),
                  ExpPart(s, DigitsEnd(s, b + 1)))
    ELSE FiniteOf(sg, Slice(s, a, b - 1), <<>>, ExpPart(s, b))

\* the words Decimal() reads as special values
InfWords == { <<"i","n","f">>, <<"i","n","f","i","n","i","t","y">> }
IsQNaNWord(w) ==
    Len(w) >= 3 /\ SubSeq(w, 1, 3) = <<"n","a","n">> /\ \A i \in 4..Len(w) : IsDigit(w[i])
IsSNaNWord(w) ==
    Len(w) >= 4 /\ SubSeq(w, 1, 4) = <<"s","n","a","n">> /\ \A i \in 5..Len(w) : IsDigit(w[i])

\* the literal's lower-cased unsigned part w as a special value, else the number
SpecialOr(w, sg, number) ==
    IF w \in InfWords THEN DecInf(sg)
    ELSE IF IsQNaNWord(w) THEN Dec(sg, -1, IntOf(Slice(w, 4, Len(w))))
    ELSE IF IsSNaNWord(w) THEN Dec(sg, -4, IntOf(Slice(w, 5, Len(w))))
    ELSE number

\* the unsigned part of the literal, from index a
Unsigned(s, sg, a) ==
    SpecialOr(Lower(Slice(s, a, Len(s))), sg, NumberFrom(s, sg, a, DigitsEnd(s, a)))

\* Decimal(s) on the stripped literal without underscores; DecInvalid when it
\* raises InvalidOperation
DecimalOfStripped(s) ==
    IF s = <<>> THEN DecInvalid
    ELSE IF IsSign(s[1]) THEN Unsigned(s, IF s[1] = "-" THEN 1 ELSE 0, 2)
    ELSE Unsigned(s, 0, 1)

DecimalOf(s) == DecimalOfStripped(RemoveCh(Strip(s), "_"))

\* s.replace("R$", "")
RECURSIVE RemoveRS(_)
RemoveRS(s) ==
    IF Len(s) < 2 THEN s
    ELSE IF s[1] = "R" /\ s[2] = "$" THEN RemoveRS(SubSeq(s, 3, Len(s)))
    ELSE <<s[1]>> \o RemoveRS(Tail(s))

CountCh(s, c) == Cardinality({ i \in 1..Len(s) : s[i] = c })

\* the comma rule: with exactly one comma, dots are thousands separators
CommaRule(s) ==
    IF CountCh(s, ",") = 1 THEN ReplaceCh(RemoveCh(s, "."), ",", ".") ELSE s

ZeroIfInvalid(d) == IF d = DecInvalid THEN DecZero ELSE d

\* _parse_decimal(v) for v None or a string
_parse_decimal(v) ==
    IF v = NoneV THEN DecZero
    ELSE ZeroIfInvalid(DecimalOf(CommaRule(RemoveCh(RemoveRS(Strip(v)), " "))))

\* ------------------------------------------------------------------
\* Normalisers and extractors of the reconciliation
\* ------------------------------------------------------------------

\* str(v) of a cell or dict value: text, or None
PyStr(v) == IF v = NoneV THEN <<"N","o","n","e">> ELSE v

\* v or "" for a value that is text or None
OrEmpty(v) == IF v = NoneV THEN <<>> ELSE v

w_cancel == <<"c","a","n","c","e","l">>
w_nfce == <<"n","f","c","e">>
w_nfc == <<"n","f","c">>
w_nfe == <<"n","f","e">>
w_nfeletronica == <<"n","f","e","l","e","t","r","o","n","i","c","a">>
w_65 == <<"6","5">>
w_55 == <<"5","5">>
w_none == <<"N","o","n","e">>
w_sem_id == <<"(","s","e","m"," ","i","d",")">>

\* stand-ins for the non-ASCII characters of _extr_id_sat's label, each one
\* character of the text
ch_ordm == "ordm"
ch_bull == "bull"
ch_eacute == "eacute"

CANDS_STATUS_SAT == <<
    <<"s","i","t","u","a","c","a","o">>,
    <<"s","t","a","t","u","s">>,
    <<"s","t","a","t","u","s","_","n","f","c","e">>,
    <<"s","i","t","u","a","c","a","o","_","n","f","c","e">> >>

CANDS_VALOR_TOTAL_SAT == <<
    <<"v","a","l","o","r","n","f","e">>,
    <<"v","a","l","o","r","_","t","o","t","a","l">>,
    <<"v","a","l","o","r","t","o","t","a","l">>,
    <<"v","a","l","o","r","_","t","o","t","a","l","_","n","f","e">>,
    <<"v","a","l","o","r","_","n","f","c","e">> >>

CANDS_CHAVE == <<
    <<"c","h","a","v","e","a","c","e","s","s","o">>,
    <<"c","h","a","v","e","_","d","e","_","a","c","e","s","s","o">>,
    <<"c","h","a","v","e">>,
    <<"a","c","c","e","s","s","k","e","y">> >>

CANDS_NUM_ID_SAT == <<
    <<"n","u","m","e","r","o","d","o","c","u","m","e","n","t","o">>,
    <<"n","u","m","e","r","o">>,
    <<"n","u","m","n","f","e">>,
    <<"n","u","m","e","r","o","_","n","f","c","e">> >>

CANDS_SERIE_SAT == <<
    <<"s","e","r","i","e">>,
    <<"s","e","r","i","e","n","f","e">>,
    <<"s","e","r","i","e","_","n","f","c","e">> >>

CANDS_NUM_SAT == <<
    <<"c","u","_","n","u","m","e","r","o","d","o","c","u","m","e","n","t","o">>,
    <<"n","u","m","e","r","o","d","o","c","u","m","e","n","t","o">>,
    <<"n","u","m","e","r","o","_","d","o","c","u","m","e","n","t","o">>,
    <<"d","o","c","u","m","e","n","t","o">>,
    <<"n","_","d","o","c","u","m","e","n","t","o">>,
    <<"n","u","m","n","f","e">>,
    <<"n","u","m","e","r","o","_","n","f","c","e">>,
    <<"n","u","m","e","r","o">> >>

CANDS_ESPECIE == <<
    <<"e","s","p","e","c","i","e">>,
    <<"e","s","p","e","c","i","e","_","d","o","c","u","m","e","n","t","o">>,
    <<"t","i","p","o">>,
    <<"t","i","p","o","_","d","o","c","u","m","e","n","t","o">> >>

CANDS_MODELO == <<
    <<"m","o","d","e","l","o","d","o","c","u","m","e","n","t","o">>,
    <<"m","o","d","e","l","o","_","d","o","c","u","m","e","n","t","o">>,
    <<"m","o","d","e","l","o">>,
    <<"m","o","d">>,
    <<"m","o","d","e","l","o","_","n","f">>,
    <<"m","o","d","e","l","o","_","n","f","e">>,
    <<"m","o","d","e","l","o","_","n","f","c","e">> >>

TOKENS_AUTORIZADO == <<
    <<"a","u","t","o","r","i","z">>,
    <<"a","p","r","o","v">>,
    <<"n","o","r","m","a","l">>,
    <<"r","e","g","u","l","a","r">>,
    <<"e","m","i","t","i","d">> >>

CANDS_VALOR_NOTA == <<
    <<"v","a","l","o","r","_","t","o","t","a","l","_","n","o","t","a">>,
    <<"v","a","l","o","r","_","t","o","t","a","l","_","n","o","t","a","s">>,
    <<"v","a","l","o","r","_","t","o","t","a","l">>,
    <<"v","a","l","o","r","t","o","t","a","l">>,
    <<"v","l","_","t","o","t","a","l">>,
    <<"v","a","l","o","r">>,
    <<"v","a","l","o","r","n","f","e">>,
    <<"v","a","l","o","r","_","n","f","c","e">>,
    <<"v","a","l","o","r","_","t","o","t","a","l","_","n","f","e">> >>

CANDS_BC_ICMS == <<
    <<"b","c","_","i","c","m","s">>,
    <<"b","a","s","e","_","i","c","m","s">>,
    <<"b","a","s","e","_","d","e","_","c","a","l","c","u","l","o","_","i","c","m","s">>,
    <<"b","a","s","e","c","a","l","c","_","i","c","m","s">>,
    <<"v","a","l","o","r","_","b","c","_","i","c","m","s">>,
    <<"b","a","s","e","c","a","l","c","u","l","o","_","i","c","m","s">> >>

CANDS_VALOR_ICMS == <<
    <<"v","a","l","o","r","_","i","c","m","s">>,
    <<"v","l","_","i","c","m","s">>,
    <<"v","l","r","_","i","c","m","s">>,
    <<"v","a","l","o","r","_","d","o","_","i","c","m","s">>,
    <<"v","l","i","c","m","s">>,
    <<"v","_","i","c","m","s">> >>

cand_num == <<
    <<"c","u","_","n","u","m","e","r","o","d","o","c","u","m","e","n","t","o">>,
    <<"n","u","m","e","r","o","d","o","c","u","m","e","n","t","o">>,
    <<"n","u","m","e","r","o","_","d","o","c","u","m","e","n","t","o">>,
    <<"n","_","d","o","c","u","m","e","n","t","o">>,
    <<"d","o","c","u","m","e","n","t","o">>,
    <<"n","u","m","e","r","o">> >>

cand_val == <<
    <<"v","a","l","o","r","_","c","o","n","t","a","b","i","l">>,
    <<"v","a","l","o","r","c","o","n","t","a","b","i","l">>,
    <<"v","l","_","c","o","n","t","a","b","i","l">>,
    <<"v","l","r","_","c","o","n","t","a","b","i","l">>,
    <<"v","a","l","o","r","_","t","o","t","a","l">>,
    <<"v","a","l","o","r","t","o","t","a","l">>,
    <<"v","l","_","t","o","t","a","l">>,
    <<"v","a","l","o","r">> >>

cand_ser == <<
    <<"s","e","r","i","e">>,
    <<"s","e","r","i","e","_","d","o","c","u","m","e","n","t","o">>,
    <<"s","e","r","i","e","n","f","e">>,
    <<"s","e","r","i","e","_","n","f","c","e">> >>

cand_dt == <<
    <<"d","a","t","a","e","m","i","s","s","a","o">>,
    <<"d","a","t","a","_","e","m","i","s","s","a","o">>,
    <<"d","t","_","e","m","i","s","s","a","o">>,
    <<"e","m","i","s","s","a","o">>,
    <<"e","m","i","s","s","a","o","_","d","a","t","a">>,
    <<"d","a","t","a">>,
    <<"d","t","e","m","i","s","s","a","o">>,
    <<"d","a","t","a","_","e","n","t","r","a","d","a","_","s","a","i","d","a">>,
    <<"d","a","t","a","_","e","n","t","r","a","d","a">>,
    <<"d","a","t","a","_","s","a","i","d","a">>,
    <<"d","t","_","e","n","t","r","a","d","a">>,
    <<"d","t","_","s","a","i","d","a">>,
    <<"d","a","t","a","e","n","t","r","a","d","a","s","a","i","d","a">> >>

\* _is_cancelado(txt)
_is_cancelado(txt) == txt # <<>> /\ Contains(Lower(Strip(txt)), w_cancel)

\* str(d.get(k, "")).strip().lower() if k else ""
StatusAt(d, k) == IF k # NoneV THEN Lower(Strip(PyStr(DictGet(d, k)))) ELSE <<>>

\* _extr_status_sat(d)
_extr_status_sat(d) == StatusAt(d, _first_key(DictKeys(d), CANDS_STATUS_SAT))

\* _extr_valor_total_sat(d)
_extr_valor_total_sat(d) ==
    _parse_decimal(DictGet(d, _first_key(DictKeys(d), CANDS_VALOR_TOTAL_SAT)))

\* s.strip(" •")
IsLabelPad(c) == c = " " \/ c = ch_bull
StripLabel(s) ==
    IF \A i \in 1..Len(s) : IsLabelPad(s[i]) THEN <<>>
    ELSE SubSeq(s,
                CHOOSE i \in 1..Len(s) : ~IsLabelPad(s[i]) /\ \A k \in 1..(i-1) : IsLabelPad(s[k]),
                CHOOSE i \in 1..Len(s) : ~IsLabelPad(s[i]) /\ \A k \in (i+1)..Len(s) : IsLabelPad(s[k]))

\* (f"Nº {num} • Série {serie}").strip(" •") or "(sem id)"
IdLabel(num, serie) ==
    StripLabel(<<"N", ch_ordm, " ">> \o num \o <<" ", ch_bull, " ", "S", ch_eacute, "r", "i", "e", " ">>
               \o serie)

OrSemId(s) == IF s = <<>> THEN w_sem_id ELSE s

\* the first access-key field of d that holds a truthy value, 0 if none
ChaveIdx(d) ==
    LET Truthy(k) == DictGet(d, k) # NoneV /\ DictGet(d, k) # <<>>
    IN  FirstIdx(CANDS_CHAVE, Truthy)

IdAt(d, i) ==
    IF i # 0 THEN DictGet(d, CANDS_CHAVE[i])
    ELSE OrSemId(IdLabel(PyStr(OrEmpty(DictGet(d, _first_key(DictKeys(d), CANDS_NUM_ID_SAT)))),
                         PyStr(OrEmpty(DictGet(d, _first_key(DictKeys(d), CANDS_SERIE_SAT))))))

\* _extr_id_sat(d)
_extr_id_sat(d) == IdAt(d, ChaveIdx(d))

NumAt(d, k) ==
    IF k # NoneV /\ DictGet(d, k) # NoneV THEN Strip(DictGet(d, k)) ELSE <<>>

\* _numero_documento_sat(d)
_numero_documento_sat(d) == NumAt(d, _first_key(DictKeys(d), CANDS_NUM_SAT))

\* _digits_only(s): re.sub(r"\D+", "", s or "").strip()
_digits_only(s) == Strip(FilterDigits(OrEmpty(s)))

\* _norm_doc(s): <<raw, digs>>
_norm_doc(s) == << Lower(Strip(OrEmpty(s))), _digits_only(s) >>

\* _norm_pair(doc, serie): <<"raw_doc|raw_ser", "dig_doc|dig_ser">>
_norm_pair(doc, serie) ==
    << Lower(Strip(OrEmpty(doc))) \o <<"|">> \o Lower(Strip(OrEmpty(serie))),
       _digits_only(doc) \o <<"|">> \o _digits_only(serie) >>

\* _norm_txt(s) on ASCII text
_norm_txt(s) == RemoveCh(RemoveCh(RemoveCh(Lower(PyStr(s)), " "), "-"), ".")

\* a kind test that looks for the invoice marker first
EspecieVerdictInvoiceFirst(v) ==
    IF Contains(v, w_nfe) \/ Contains(v, w_nfeletronica) \/ v = w_55 THEN "yes"
    ELSE IF Contains(v, w_nfce) \/ Contains(v, w_nfc) \/ v = w_65 THEN "no"
    ELSE "next"

\* the three tests of _is_nfe_questor: "yes", "no" or "next"
EspecieVerdict(v) ==
    IF Contains(v, w_nfce) \/ Contains(v, w_nfc) \/ v = w_65 THEN "no"
    ELSE IF Contains(v, w_nfe) \/ Contains(v, w_nfeletronica) \/ v = w_55 THEN "yes"
    ELSE "next"

ModeloVerdict(v) ==
    IF Contains(v, w_65) \/ Contains(v, w_nfce) \/ Contains(v, w_nfc) THEN "no"
    ELSE IF Contains(v, w_55) \/ Contains(v, w_nfe) THEN "yes"
    ELSE "next"

ChaveVerdict(digs) ==
    IF Len(digs) >= 22
    THEN (IF SubSeq(digs, 21, 22) = w_55 THEN "yes"
          ELSE IF SubSeq(digs, 21, 22) = w_65 THEN "no" ELSE "next")
    ELSE "next"

EspecieAt(d, k) == IF k # NoneV THEN EspecieVerdict(_norm_txt(DictGet(d, k))) ELSE "next"
ModeloAt(d, k) == IF k # NoneV THEN ModeloVerdict(_norm_txt(DictGet(d, k))) ELSE "next"
ChaveAt(d, k) == IF k # NoneV THEN ChaveVerdict(_digits_only(DictGet(d, k))) ELSE "next"

\* the first verdict that decides; False when none does
\* a classifier that answers yes for a receipt
DecideReceipt(a, b, c) ==
    IF a # "next" THEN a = "no"
    ELSE IF b # "next" THEN b = "no"
    ELSE c = "no"

Decide(a, b, c) ==
    IF a # "next" THEN a = "yes"
    ELSE IF b # "next" THEN b = "yes"
    ELSE c = "yes"

\* _is_nfe_questor(d)
_is_nfe_questor(d) ==
    Decide(EspecieAt(d, _first_key(DictKeys(d), CANDS_ESPECIE)),
           ModeloAt(d, _first_key(DictKeys(d), CANDS_MODELO)),
           ChaveAt(d, _first_key(DictKeys(d), CANDS_CHAVE)))

\* the token test without the cancellation test before it
_is_autorizado_tokens(txt) ==
    /\ Strip(Lower(OrEmpty(txt))) # <<>>
    /\ \E i \in 1..Len(TOKENS_AUTORIZADO) :
          Contains(Lower(Strip(OrEmpty(txt))), TOKENS_AUTORIZADO[i])

\* _is_autorizado(txt)
_is_autorizado(txt) ==
    /\ Strip(Lower(OrEmpty(txt))) # <<>>
    /\ ~_is_cancelado(Lower(Strip(OrEmpty(txt))))
    /\ \E i \in 1..Len(TOKENS_AUTORIZADO) :
          Contains(Lower(Strip(OrEmpty(txt))), TOKENS_AUTORIZADO[i])

w_CANCELADA == <<"C","A","N","C","E","L","A","D","A">>
w_AUTORIZADA == <<"A","U","T","O","R","I","Z","A","D","A">>
w_DESCONHECIDO == <<"D","E","S","C","O","N","H","E","C","I","D","O">>

LegivelOf(s) ==
    IF _is_cancelado(s) THEN w_CANCELADA
    ELSE IF _is_autorizado(s) THEN w_AUTORIZADA
    ELSE Upper(Strip(IF s = <<>> THEN w_DESCONHECIDO ELSE s))

\* _status_legivel(d)
_status_legivel(d) == LegivelOf(_extr_status_sat(d))

\* _row_to_norm_dict(headers, row)
RECURSIVE NormDictFrom(_, _, _, _)
NormDictFrom(headers, row, i, acc) ==
    IF i > Len(headers) THEN acc
    ELSE NormDictFrom(headers, row, i + 1,
             DictSet(acc, _slug(headers[i]),
                     IF i <= Len(row) /\ row[i] # NoneV THEN Strip(row[i]) ELSE <<>>))

_row_to_norm_dict(headers, row) == NormDictFrom(headers, row, 1, <<>>)

\* _extr_decimal_by_keys(d, candidates)
DecimalAt(d, k) == IF k # NoneV THEN _parse_decimal(DictGet(d, k)) ELSE DecZero
_extr_decimal_by_keys(d, candidates) == DecimalAt(d, _first_key(DictKeys(d), candidates))

\* dt_ini <= d <= dt_fim
InWindow(d, dt_ini, dt_fim) == DateLE(dt_ini, d) /\ DateLE(d, dt_fim)

\* a date filter that leaves the two ends of the period out
PassesWindowExclusive(d, dt_ini, dt_fim) ==
    (dt_ini # NoDate /\ dt_fim # NoDate) =>
        (d # NoDate /\ ~DateLE(d, dt_ini) /\ ~DateLE(dt_fim, d))

\* the date filter: with both ends given, a missing or outside date fails
PassesWindow(d, dt_ini, dt_fim) ==
    (dt_ini # NoDate /\ dt_fim # NoDate) => (d # NoDate /\ InWindow(d, dt_ini, dt_fim))

\* n as w digits, zero padded
Pad(n, w) == Zeros(w - Len(NatStr(n))) \o NatStr(n)

\* d.isoformat() if d else ""
IsoFormat(d) ==
    IF d = NoDate THEN <<>>
    ELSE Pad(d.y, 4) \o <<"-">> \o Pad(d.m, 2) \o <<"-">> \o Pad(d.d, 2)

\* ------------------------------------------------------------------
\* The persisted registry (SatRegistro rows of one company) and
\* sat_importar
\* ------------------------------------------------------------------

\* model bounds
MaxRows == 2
MaxRuns == 3
\* the write buffers' batch size (500 in the program), scaled to the model
BATCH == 2

k_descricao == <<"d","e","s","c","r","i","c","a","o">>
k_descricao_produto == <<"d","e","s","c","r","i","c","a","o","_","p","r","o","d","u","t","o">>
k_descricao_mercadoria == <<"d","e","s","c","r","i","c","a","o","_","m","e","r","c","a","d","o","r","i","a">>
k_cst_csosn == <<"c","s","t","_","c","s","o","s","n">>
k_cst == <<"c","s","t">>
k_csosn == <<"c","s","o","s","n">>
k_ncm == <<"n","c","m">>
k_cfop == <<"c","f","o","p">>
k_cest == <<"c","e","s","t">>

\* the workbooks' header row
h_data_emissao == <<"D","a","t","a"," ","E","m","i","s","s","a","o">>
h_descricao == <<"D","e","s","c","r","i","c","a","o">>
Headers == <<h_data_emissao, h_descricao>>

\* cells of the workbooks' data rows
c_jan == <<"1","5","/","0","1","/","2","0","2","4">>
c_feb == <<"2","0","2","4","-","0","2","-","0","3">>
c_a == <<"a">>
c_b == <<"b">>

\* data rows: dated in January, dated in February, without a date, blank
\* (a short row whose only cell is the empty string)
RowPool == {
    <<c_jan, c_a>>,
    <<c_feb, c_a>>,
    <<NoneV, c_b>>,
    <<<<>>>>
}

RowSeqs == UNION { [1..n -> RowPool] : n \in 0..MaxRows }

\* a workbook: its sheets in order, each with a header row and data rows
\* (every sheet has the header row Headers)
Workbooks ==
    { <<[name |-> "A", rows |-> rs]>> : rs \in RowSeqs }
    \cup
    { <<[name |-> "A", rows |-> <<r1>>], [name |-> "B", rows |-> <<r2>>]>> :
        r1 \in {<<c_jan, c_a>>, <<NoneV, c_b>>}, r2 \in {<<c_jan, c_a>>, <<NoneV, c_b>>} }

\* the form's "competencia" field
CompParams == { NoneV, <<"2","0","2","4","-","0","3">>, <<"1","3","/","2","0","2","4">> }

\* the workbooks and fallback competencies of the concurrent requests
MaxConcRuns == 3
ConcRows == { <<c_jan, c_a>>, <<NoneV, c_b>> }
ConcWorkbooks ==
    { <<[name |-> "A", rows |-> rs]>> : rs \in [1..1 -> ConcRows] \cup [1..2 -> ConcRows] }
ConcCompParams == { NoDate, MkDate(2024, 3, 1) }

AllProcs == {1, 2}

VARIABLES
    db,       \* the committed SatRegistro rows
    imp,      \* per request: the locals of sat_importar and its transaction
    runs,     \* completed and started imports so far
    session,  \* request.session["questor_cmp"]: the stored comparison result
    cmp,      \* the locals of the comparar_questor request
    cmp_runs, \* comparison requests so far
    calc      \* one call of a helper function: its argument and its result

vars == <<db, imp, runs, session, cmp, cmp_runs, calc>>
impvars == <<db, imp, runs>>
cmpvars == <<session, cmp, cmp_runs>>

\* a key that leaves the competency out
KeyOfNoComp(reg) == <<NoDate, reg.sheet, reg.row>>
\* the key of a registry row or of a staged object (one company)
KeyOf(reg) == <<reg.competencia, reg.sheet, reg.row>>

\* models.UniqueConstraint(fields=[empresa, competencia, sheet, row],
\*                         condition=~Q(competencia__isnull=True))
UniqueViolationNoConstraint(obj, rows) == FALSE
UniqueViolation(obj, rows) ==
    /\ obj.competencia # NoDate
    /\ \E x \in rows : KeyOf(x) = KeyOf(obj)

Idle == [pc |-> "idle", wb |-> <<>>, comp_param |-> NoDate, si |-> 1, ri |-> 1,
         exist_map |-> <<>>, to_create |-> <<>>, to_update |-> <<>>,
         criados |-> 0, atualizados |-> 0, ignorados_vazios |-> 0,
         ins |-> {}, upd |-> {}, flushes |-> 0, calls |-> <<>>, db0 |-> {}, ops |-> {},
         rerun |-> FALSE]

ImportInit ==
    /\ db = {}
    /\ imp = [p \in AllProcs |-> Idle]
    /\ runs = 0

\* the next data row at or after (si, ri): sheets without rows left are passed
RECURSIVE Cursor(_, _, _)
Cursor(wb, si, ri) ==
    IF si > Len(wb) THEN <<si, 1>>
    ELSE IF ri > Len(wb[si].rows) THEN Cursor(wb, si + 1, 1)
    ELSE <<si, ri>>

\* exist_map left empty
ExistMapsNotLoaded(rows) == { <<>> }
\* exist_map: one registry row per key of the company's rows (the last one the
\* unordered queryset yields), as key -> pk
ExistMaps(rows) ==
    LET MapOf(S) == [k \in {KeyOf(x) : x \in S} |-> (CHOOSE x \in S : KeyOf(x) = k).id]
    IN  IF \A y, z \in rows : KeyOf(y) = KeyOf(z) => y = z
        THEN { MapOf(rows) }
        ELSE { MapOf(S) :
                 S \in { T \in SUBSET rows :
                          /\ \A x \in rows : \E y \in T : KeyOf(y) = KeyOf(x)
                          /\ \A y, z \in T : KeyOf(y) = KeyOf(z) => y = z } }

\* the competencies the form's field parses to
CompParamDates == { _parse_competencia_str(cp) : cp \in CompParams }

\* sat_importar up to the row loop: the form is valid and the workbook opens
BeginWith(p, wbs, cps, max_runs) ==
    /\ imp[p].pc \in {"idle", "done", "failed", "rejected"}
    /\ runs < max_runs
    /\ \E wb \in wbs, cp \in cps, em \in ExistMaps(db) :
          imp' = [imp EXCEPT ![p] =
                    [Idle EXCEPT !.pc = "run", !.wb = wb, !.comp_param = cp,
                                 !.si = Cursor(wb, 1, 1)[1], !.ri = Cursor(wb, 1, 1)[2],
                                 !.exist_map = em, !.db0 = db,
                                 !.rerun = /\ imp[p].pc = "done"
                                           /\ imp[p].wb = wb
                                           /\ imp[p].comp_param = cp]]
    /\ runs' = runs + 1
    /\ UNCHANGED <<db, cmpvars, calc>>

Begin(p) == BeginWith(p, Workbooks, CompParamDates, MaxRuns)

\* sat_importar returning early: no company, no .xlsx file, or a workbook that
\* does not open (the error is reported and nothing is read or written)
RejectedWith(p, max_runs) ==
    /\ imp[p].pc \in {"idle", "done", "failed", "rejected"}
    /\ runs < max_runs
    /\ imp' = [imp EXCEPT ![p] = [Idle EXCEPT !.pc = "rejected", !.db0 = db]]
    /\ runs' = runs + 1
    /\ UNCHANGED <<db, cmpvars, calc>>

BeginRejected(p) == RejectedWith(p, MaxRuns)

\* the row's dict and its emptiness flag (lines 313-318)
RowData(header_keys, row) ==
    LET Val(i) == IF i <= Len(row) THEN row[i] ELSE NoneV
        IsBlank(v) == v = NoneV \/ v = <<>>
        RECURSIVE Build(_, _)
        Build(i, acc) ==
            IF i > Len(header_keys) THEN acc
            ELSE Build(i + 1, DictSet(acc, header_keys[i],
                                      IF IsBlank(Val(i)) THEN NoneV ELSE Val(i)))
    IN  [data  |-> Build(1, <<>>),
         vazio |-> \A i \in 1..Len(header_keys) : IsBlank(Val(i))]

\* a or b or c over dict values (None is the only falsy value stored)
Or3(a, b, c) == IF a # NoneV THEN a ELSE IF b # NoneV THEN b ELSE c

\* header_keys (line 310)
header_keys == [i \in 1..Len(Headers) |-> _slugify_field(Headers[i])]

\* the promoted fields, the issue date and its competency (lines 324-327)
FieldsOf(data, vazio, dt_em) ==
    [data |-> data, vazio |-> vazio,
     descricao |-> Or3(DictGet(data, k_descricao), DictGet(data, k_descricao_produto),
                       DictGet(data, k_descricao_mercadoria)),
     ncm |-> DictGet(data, k_ncm), cfop |-> DictGet(data, k_cfop),
     cest |-> DictGet(data, k_cest),
     cst_csosn |-> Or3(DictGet(data, k_cst_csosn), DictGet(data, k_cst),
                       DictGet(data, k_csosn)),
     data_emissao |-> dt_em,
     viaDate |-> _competencia_from_date(dt_em)]

RowFieldsOf(rd) == FieldsOf(rd.data, rd.vazio, _extr_data_emissao_dict(rd.data))

\* what the loop body derives from a row alone (lines 313-327)
RowFields(row) == RowFieldsOf(RowData(header_keys, row))

\* RowFields over the rows of the model's workbooks, computed once
RowTable == [row \in RowPool |-> RowFields(row)]

\* competencia = _competencia_from_date(dt_em) or comp_param (line 327)
CompetenciaOf(viaDate, comp_param) == IF viaDate # NoDate THEN viaDate ELSE comp_param

RegOf(id, sheet_name, r, f, comp_param) ==
    [id |-> id, sheet |-> sheet_name, row |-> r, data |-> f.data,
     descricao |-> f.descricao, ncm |-> f.ncm, cfop |-> f.cfop, cest |-> f.cest,
     cst_csosn |-> f.cst_csosn, data_emissao |-> f.data_emissao,
     competencia |-> CompetenciaOf(f.viaDate, comp_param)]

\* the SatRegistro object built or refreshed from a row (lines 329-356)
RegFrom(id, sheet_name, r, row, comp_param) ==
    RegOf(id, sheet_name, r, RowTable[row], comp_param)

\* unique_key in exist_map
InExistMapNoNull(exist_map, key) == key \in DOMAIN exist_map /\ key[1] # NoDate
InExistMap(exist_map, key) == key \in DOMAIN exist_map

\* the rows request p reads: the committed rows and its own uncommitted writes
Visible(p) ==
    { x \in db : \A u \in imp[p].upd : u.id # x.id } \cup imp[p].upd \cup imp[p].ins

OtherActive(p) == { q \in AllProcs \ {p} : imp[q].pc \in {"run", "flushed"} }

\* the largest primary key handed out
MaxOf(Ids) == IF Ids = {} THEN 0 ELSE CHOOSE m \in Ids : \A i \in Ids : i <= m
MaxId == MaxOf({x.id : x \in db} \cup UNION { {x.id : x \in imp[q].ins} : q \in AllProcs })

\* bulk_create(objs, ignore_conflicts=True): the rows it adds to p's
\* transaction; an object that violates the unique constraint is dropped
BulkCreate(p, objs) ==
    { [objs[i] EXCEPT !.id = MaxId + i] :
        i \in { j \in 1..Len(objs) : ~UniqueViolation(objs[j], Visible(p)) } }

\* an insert waits while another open transaction holds an uncommitted row
\* with the same unique key
CreateWaits(p, objs) ==
    \E q \in OtherActive(p), i \in 1..Len(objs) : UniqueViolation(objs[i], imp[q].ins)

\* bulk_update(objs, fields=[...]): p's uncommitted row versions afterwards
BulkUpdate(p, objs) ==
    { u \in imp[p].upd : \A i \in 1..Len(objs) : u.id # objs[i].id }
    \cup { objs[i] : i \in 1..Len(objs) }

\* an update waits while another open transaction holds an uncommitted
\* version of the same row
UpdateWaits(p, objs) ==
    \E q \in OtherActive(p), i \in 1..Len(objs) : \E u \in imp[q].upd : u.id = objs[i].id

\* one bulk write call, kept for the properties: its kind and the workbook
\* rows of the objects passed to it
CallOf(kind, objs) ==
    [kind |-> kind, objs |-> [i \in 1..Len(objs) |-> <<objs[i].sheet, objs[i].row>>]]

\* a batch flush that leaves the buffer as it is
FlushCreatesNoClear(p, me) ==
    IF Len(me.to_create) >= BATCH
    THEN [me EXCEPT !.ins = @ \cup BulkCreate(p, me.to_create),
                    !.flushes = @ + 1,
                    !.calls = Append(@, CallOf("create", me.to_create))]
    ELSE me

\* the batch flushes at the end of an iteration (lines 361-370)
FlushCreates(p, me) ==
    IF Len(me.to_create) >= BATCH
    THEN [me EXCEPT !.ins = @ \cup BulkCreate(p, me.to_create), !.to_create = <<>>,
                    !.flushes = @ + 1,
                    !.calls = Append(@, CallOf("create", me.to_create))]
    ELSE me

FlushUpdates(p, me) ==
    IF Len(me.to_update) >= BATCH
    THEN [me EXCEPT !.upd = BulkUpdate(p, me.to_update), !.to_update = <<>>,
                    !.flushes = @ + 1,
                    !.calls = Append(@, CallOf("update", me.to_update))]
    ELSE me

FlushBatches(p, me) ==
    /\ ~(Len(me.to_create) >= BATCH /\ CreateWaits(p, me.to_create))
    /\ ~(Len(me.to_update) >= BATCH /\ UpdateWaits(p, me.to_update))
    /\ imp' = [imp EXCEPT ![p] = FlushUpdates(p, FlushCreates(p, me))]

\* what the iteration did, kept for the properties
OpRec(me, obj, op) ==
    [sheet |-> obj.sheet, row |-> obj.row, competencia |-> obj.competencia, op |-> op,
     existed |-> \E x \in me.db0 : KeyOf(x) = KeyOf(obj)]

\* the key is in exist_map: refresh the loaded object (lines 331-342)
StageUpdate(p, me, obj) ==
    FlushBatches(p, [me EXCEPT
        !.to_update = Append(@, [obj EXCEPT !.id = me.exist_map[KeyOf(obj)]]),
        !.atualizados = @ + 1,
        !.ops = @ \cup {OpRec(me, obj, "update")}])

\* the key is new: build an object and remember its key (lines 343-359)
StageCreate(p, me, obj) ==
    FlushBatches(p, [me EXCEPT
        !.to_create = Append(@, obj),
        !.criados = @ + 1,
        !.exist_map = [k \in DOMAIN me.exist_map \cup {KeyOf(obj)} |->
                         IF k = KeyOf(obj) THEN 0 ELSE me.exist_map[k]],
        !.ops = @ \cup {OpRec(me, obj, "create")}])

StageRow(p, me, obj) ==
    IF InExistMap(me.exist_map, KeyOf(obj))
    THEN StageUpdate(p, me, obj)
    ELSE StageCreate(p, me, obj)

\* a blank row is counted and skipped (lines 320-322)
SkipRow(p, me, sheet_name, r) ==
    imp' = [imp EXCEPT ![p] = [me EXCEPT
        !.ignorados_vazios = @ + 1,
        !.ops = @ \cup {[sheet |-> sheet_name, row |-> r, competencia |-> NoDate,
                         op |-> "skip", existed |-> FALSE]}]]

\* enumerate(rows, start=2) moves on
AdvanceTo(me, nxt) == [me EXCEPT !.si = nxt[1], !.ri = nxt[2]]
Advance(me) == AdvanceTo(me, Cursor(me.wb, me.si, me.ri + 1))

\* the row loop without the blank-row test
RowStepNoSkip(p, me, sheet_name, r, row) ==
    StageRow(p, Advance(me), RegFrom(0, sheet_name, r, row, me.comp_param))
\* the body of the row loop for data row number r of sheet sheet_name
RowStep(p, me, sheet_name, r, row) ==
    IF RowTable[row].vazio
    THEN SkipRow(p, Advance(me), sheet_name, r)
    ELSE StageRow(p, Advance(me), RegFrom(0, sheet_name, r, row, me.comp_param))

\* one iteration of the row loop (lines 312-370), with the batch flushes
ProcessRow(p) ==
    /\ imp[p].pc = "run"
    /\ imp[p].si <= Len(imp[p].wb)
    /\ RowStep(p, imp[p], imp[p].wb[imp[p].si].name, imp[p].ri + 1,
               imp[p].wb[imp[p].si].rows[imp[p].ri])
    /\ UNCHANGED <<db, runs, cmpvars, calc>>

\* if to_create: bulk_create(to_create) / if to_update: bulk_update(to_update)
FinalCalls(me) ==
    (IF me.to_create # <<>> THEN <<CallOf("create", me.to_create)>> ELSE <<>>)
    \o (IF me.to_update # <<>> THEN <<CallOf("update", me.to_update)>> ELSE <<>>)

\* the flushes after the loops (lines 372-379)
FinalFlush(p) ==
    /\ imp[p].pc = "run"
    /\ imp[p].si > Len(imp[p].wb)
    /\ ~CreateWaits(p, imp[p].to_create)
    /\ ~UpdateWaits(p, imp[p].to_update)
    /\ imp' = [imp EXCEPT ![p] = [imp[p] EXCEPT
                 !.pc = "flushed",
                 !.to_create = <<>>, !.to_update = <<>>,
                 !.calls = @ \o FinalCalls(imp[p]),
                 !.ins = @ \cup BulkCreate(p, imp[p].to_create),
                 !.upd = IF imp[p].to_update = <<>> THEN @
                         ELSE BulkUpdate(p, imp[p].to_update)]]
    /\ UNCHANGED <<db, runs, cmpvars, calc>>

\* the registry with the writes of p's transaction applied
Applied(p) ==
    { x \in db : \A u \in imp[p].upd : u.id # x.id }
    \cup { u \in imp[p].upd : \E x \in db : x.id = u.id }
    \cup imp[p].ins

\* sat_importar returns: transaction.atomic commits and the counts are reported
Commit(p) ==
    /\ imp[p].pc = "flushed"
    /\ db' = Applied(p)
    /\ imp' = [imp EXCEPT ![p] = [imp[p] EXCEPT !.pc = "done", !.ins = {}, !.upd = {}]]
    /\ UNCHANGED <<runs, cmpvars, calc>>

\* the registry after an exception leaves sat_importar: transaction.atomic
\* rolls the request's writes back
RollbackNotAtomic(p) == Applied(p)
Rollback(p) == db

\* any exception inside sat_importar once the workbook is open
Fail(p) ==
    /\ imp[p].pc \in {"run", "flushed"}
    /\ db' = Rollback(p)
    /\ imp' = [imp EXCEPT ![p] = [imp[p] EXCEPT !.pc = "failed", !.ins = {}, !.upd = {}]]
    /\ UNCHANGED <<runs, cmpvars, calc>>

ImportStep(p) ==
    \/ Begin(p)
    \/ BeginRejected(p)
    \/ ProcessRow(p)
    \/ FinalFlush(p)
    \/ Commit(p)
    \/ Fail(p)

\* ------------------------------------------------------------------
\* The reconciliation request (comparar_questor)
\* ------------------------------------------------------------------

MaxQRows == 2
MaxRegs == 2
MaxCmps == 1

h_numero_documento == <<"N","u","m","e","r","o"," ","D","o","c","u","m","e","n","t","o">>
h_serie == <<"S","e","r","i","e">>
h_valor_contabil == <<"V","a","l","o","r"," ","C","o","n","t","a","b","i","l">>
h_especie == <<"E","s","p","e","c","i","e">>
h_situacao == <<"S","i","t","u","a","c","a","o">>
h_valor_total == <<"V","a","l","o","r"," ","T","o","t","a","l">>
q_0123 == <<"0","1","2","3">>
q_01 == <<"0","1">>
q_150 == <<"1","5","0",".","0","0">>
q_12 == <<"1","2">>
q_1 == <<"1">>
q_0 == <<"0">>
q_50 == <<"5","0">>
q_999 == <<"9","9","9">>
q_1050 == <<"1","0",",","5","0">>
q_7 == <<"7">>
q_30 == <<"3","0">>
q_nfe == <<"N","F","-","e">>
q_nfce == <<"N","F","C","-","e">>
q_1_2 == <<"1","-","2">>
q_123 == <<"1","2","3">>
q_cancelada == <<"C","a","n","c","e","l","a","d","a">>
q_autorizada_up == <<"A","U","T","O","R","I","Z","A","D","A">>
q_autorizada == <<"A","u","t","o","r","i","z","a","d","a">>
q_80 == <<"8","0",",","0","0">>
q_20 == <<"2","0",",","0","0">>
w_ini_jan == <<"2","0","2","4","-","0","1","-","0","1">>
w_fim_jan == <<"2","0","2","4","-","0","1","-","3","1">>
w_ini_feb == <<"2","0","2","4","-","0","2","-","0","1">>
w_fim_feb == <<"2","0","2","4","-","0","2","-","2","9">>
w_jan15 == <<"2","0","2","4","-","0","1","-","1","5">>
w_0_txt == <<"0">>
\* the columns a Questor sheet may carry: document number, series, value,
\* date and kind
QColumns == <<h_numero_documento, h_serie, h_valor_contabil, h_data_emissao, h_especie>>

\* the columns present: all, all but the series, all but the document number,
\* all but the value
QColumnSets == { <<1, 2, 3, 4, 5>>, <<1, 3, 4, 5>>, <<2, 3, 4, 5>>, <<1, 2, 4, 5>> }

\* Questor data rows over QColumns (cells are text or None)
QRowPool == {
    <<q_0123, q_01, q_150, c_jan, q_nfce>>,
    <<q_12, q_1, q_0, c_jan, NoneV>>,
    <<q_12, NoneV, q_50, c_jan, NoneV>>,
    <<q_1_2, q_1, q_50, c_jan, NoneV>>,
    <<q_999, q_1, q_1050, c_feb, NoneV>>,
    <<q_7, q_1, q_30, c_jan, q_nfe>>,
    <<NoneV, q_1, q_50, NoneV, NoneV>>
}

Project(seq, colset) == [i \in 1..Len(colset) |-> seq[colset[i]]]

\* the first sheet of the uploaded workbook: a header row and data rows
QSheets ==
    { [headers |-> Project(QColumns, cs),
       rows    |-> [i \in 1..Len(rs) |-> Project(rs[i], cs)]] :
        cs \in QColumnSets, rs \in UNION { [1..n -> QRowPool] : n \in 0..MaxQRows } }

\* the form's "inicio" and "fim" fields
WindowInputs == {
    <<NoneV, NoneV>>,
    <<w_ini_jan, w_fim_jan>>,
    <<w_ini_jan, NoneV>>,
    <<w_ini_feb, w_fim_feb>>,
    <<w_jan15, w_jan15>>,
    <<w_ini_feb, w_fim_jan>> }

\* dt_ini, dt_fim = _parse_date_any(inicio), _parse_date_any(fim)
Windows == { <<_parse_date_any(w[1]), _parse_date_any(w[2])>> : w \in WindowInputs }

\* (dt_ini and dt_fim) and dt_ini > dt_fim
InvalidPeriod(w) == w[1] # NoDate /\ w[2] # NoDate /\ ~DateLE(w[1], w[2])

\* the SAT workbook's columns and the rows imported from it
SatHeaders == <<h_numero_documento, h_serie, h_situacao, h_data_emissao, h_valor_total>>
SatHeaderKeys == [i \in 1..Len(SatHeaders) |-> _slugify_field(SatHeaders[i])]

SatRowPool == {
    <<q_123, q_1, q_cancelada, c_jan, q_150>>,
    <<q_999, NoneV, q_autorizada_up, c_jan, q_20>>,
    <<q_12, q_1, q_cancelada, c_jan, q_80>>,
    <<q_12, q_1, q_autorizada, c_feb, q_20>>
}

\* more registry rows, for registries with more findings than the lists of a
\* stored result keep
ManyRowPool == {
    <<q_7, NoneV, q_autorizada, c_jan, q_20>>,
    <<q_1_2, q_1, q_autorizada_up, c_jan, q_20>>
}

\* document numbers without a digit, on both sides
q_abc == <<"A","B","C">>
q_xyz == <<"X","Y","Z">>
q_serie_a == <<"A">>
LetterQRows == {
    <<q_abc, q_1, q_50, c_jan, NoneV>>,
    <<q_abc, q_serie_a, q_50, c_jan, NoneV>>,
    <<q_abc, NoneV, q_50, c_jan, NoneV>>,
    <<q_12, q_1, q_50, c_jan, NoneV>>
}
LetterSatRows == {
    <<q_xyz, q_1, q_cancelada, c_jan, q_20>>,
    <<q_xyz, NoneV, q_autorizada, c_jan, q_20>>,
    <<q_abc, q_1, q_cancelada, c_jan, q_20>>,
    <<q_1_2, q_1, q_autorizada, c_jan, q_20>>
}
LetterSheets ==
    { [headers |-> QColumns, rows |-> rs] :
        rs \in UNION { [1..n -> LetterQRows] : n \in 0..MaxQRows } }

\* the registry an import of the rows cells (sheet "A", no fallback
\* competency) leaves
ImportedRow(i, cells) == RegOf(i, "A", i + 1, RowFieldsOf(RowData(SatHeaderKeys, cells)), NoDate)
Imported(rs) == { ImportedRow(i, rs[i]) : i \in 1..Len(rs) }
SatRegistries == { Imported(rs) : rs \in UNION { [1..n -> SatRowPool] : n \in 1..MaxRegs } }

\* cols = { _slug(h): i for i, h in enumerate(headers) }, with 1-based i
RECURSIVE ColsFrom(_, _, _)
ColsFrom(headers, i, acc) ==
    IF i > Len(headers) THEN acc
    ELSE ColsFrom(headers, i + 1, DictSet(acc, _slug(headers[i]), i))

\* k is a resolved column and the row reaches it
HasCell(row, cols, k) == k # NoneV /\ DictGet(cols, k) <= Len(row)
Cell(row, cols, k) == row[DictGet(cols, k)]

\* k_num, k_val, k_ser, k_dt (lines 470-473)
Resolve(cols) ==
    [k_num |-> _first_key(DictKeys(cols), cand_num),
     k_val |-> _first_key(DictKeys(cols), cand_val),
     k_ser |-> _first_key(DictKeys(cols), cand_ser),
     k_dt  |-> _first_key(DictKeys(cols), cand_dt)]

\* a schema test that asks for one of the two columns only
SchemaMissingBoth(k_num, k_val) == ~(k_num # NoneV \/ k_val # NoneV)
\* not (k_num and k_val) (line 475)
SchemaMissing(k_num, k_val) == ~(k_num # NoneV /\ k_val # NoneV)

\* what the loops of _questor_map_por_documento and _questor_totais_periodo
\* read from a row, before the date window is applied
QRowInfoOf(row, cols, ks, dline) ==
    [has_dt  |-> HasCell(row, cols, ks.k_dt),
     dt_row  |-> IF HasCell(row, cols, ks.k_dt)
                 THEN _parse_date_any(Cell(row, cols, ks.k_dt)) ELSE NoDate,
     nfe     |-> _is_nfe_questor(dline),
     raw_num |-> IF HasCell(row, cols, ks.k_num)
                 THEN OrEmpty(Cell(row, cols, ks.k_num)) ELSE <<>>,
     num     |-> IF HasCell(row, cols, ks.k_num)
                 THEN PyStr(Cell(row, cols, ks.k_num)) ELSE <<>>,
     val_q   |-> _parse_decimal(IF HasCell(row, cols, ks.k_val)
                                THEN Cell(row, cols, ks.k_val) ELSE w_0_txt),
     serie   |-> IF HasCell(row, cols, ks.k_ser)
                 THEN OrEmpty(Cell(row, cols, ks.k_ser)) ELSE <<>>,
     v_nota  |-> _extr_decimal_by_keys(dline, CANDS_VALOR_NOTA),
     v_bc    |-> _extr_decimal_by_keys(dline, CANDS_BC_ICMS),
     v_icms  |-> _extr_decimal_by_keys(dline, CANDS_VALOR_ICMS)]

\* the keys of a row: _norm_doc(str(raw_num)), _norm_pair(str(raw_num), serie)
\* and the aggregator's _norm_pair(str(num), serie)
WithKeys(ri) ==
    [info |-> ri, doc |-> _norm_doc(ri.raw_num), pair |-> _norm_pair(ri.raw_num, ri.serie),
     key_raw |-> _norm_pair(ri.num, ri.serie)[1]]

QRowInfo(headers, row, cols, ks) ==
    WithKeys(QRowInfoOf(row, cols, ks, _row_to_norm_dict(headers, row)))

SheetInfoOf(sh, cols, ks) ==
    [ks |-> ks, rows |-> [i \in 1..Len(sh.rows) |-> QRowInfo(sh.headers, sh.rows[i], cols, ks)]]

SheetInfoAt(sh, cols) == SheetInfoOf(sh, cols, Resolve(cols))

\* the header resolution and the rows' readings of a sheet
SheetInfo(sh) == SheetInfoAt(sh, ColsFrom(sh.headers, 1, <<>>))

\* SheetInfo over the model's sheets, computed once
QTable == [sh \in QSheets \cup LetterSheets |-> SheetInfo(sh)]

\* m[key] = m.get(key, Decimal("0")) + val
AddTo(m, key, val) ==
    DictSet(m, key, DecAdd(IF DictHas(m, key) THEN DictGet(m, key) ELSE DecZero, val))

NoMaps == [doc_exato |-> <<>>, doc_digits |-> <<>>, pair_exato |-> <<>>, pair_digits |-> <<>>,
           lidas_total |-> 0, lidas_periodo |-> 0, raised |-> FALSE]

\* an indexer that adds every row to both families of tables
IndexRowBoth(acc, r, dt_ini, dt_fim) ==
    IF ~PassesWindow(r.info.dt_row, dt_ini, dt_fim) \/ r.info.nfe
    THEN [acc EXCEPT !.lidas_total = @ + 1]
    ELSE IF Strip(r.info.raw_num) = <<>>
    THEN [acc EXCEPT !.lidas_total = @ + 1, !.lidas_periodo = @ + 1]
    ELSE [acc EXCEPT !.lidas_total = @ + 1, !.lidas_periodo = @ + 1,
                     !.pair_exato = AddTo(@, r.pair[1], r.info.val_q),
                     !.pair_digits = AddTo(@, r.pair[2], r.info.val_q),
                     !.doc_exato = AddTo(@, r.doc[1], r.info.val_q),
                     !.doc_digits = AddTo(@, r.doc[2], r.info.val_q)]

\* one iteration of the indexer's row loop (lines 484-518)
IndexRow(acc, r, dt_ini, dt_fim) ==
    IF ~PassesWindow(r.info.dt_row, dt_ini, dt_fim) \/ r.info.nfe
    THEN [acc EXCEPT !.lidas_total = @ + 1]
    ELSE IF Strip(r.info.raw_num) = <<>>
    THEN [acc EXCEPT !.lidas_total = @ + 1, !.lidas_periodo = @ + 1]
    ELSE IF r.info.serie # <<>>
    THEN [acc EXCEPT !.lidas_total = @ + 1, !.lidas_periodo = @ + 1,
                     !.pair_exato = AddTo(@, r.pair[1], r.info.val_q),
                     !.pair_digits = AddTo(@, r.pair[2], r.info.val_q)]
    ELSE [acc EXCEPT !.lidas_total = @ + 1, !.lidas_periodo = @ + 1,
                     !.doc_exato = AddTo(@, r.doc[1], r.info.val_q),
                     !.doc_digits = AddTo(@, r.doc[2], r.info.val_q)]

RECURSIVE IndexRows(_, _, _, _, _)
IndexRows(rows, i, acc, dt_ini, dt_fim) ==
    IF i > Len(rows) THEN acc
    ELSE IndexRows(rows, i + 1, IndexRow(acc, rows[i], dt_ini, dt_fim), dt_ini, dt_fim)

\* _questor_map_por_documento(ws, dt_ini, dt_fim): the four maps and the
\* counters, or raised when it raises ValueError before its row loop
_questor_map_por_documento(info, dt_ini, dt_fim) ==
    IF SchemaMissing(info.ks.k_num, info.ks.k_val)
    THEN [NoMaps EXCEPT !.raised = TRUE]
    ELSE IndexRows(info.rows, 1, NoMaps, dt_ini, dt_fim)

NoTotals == [valor |-> <<>>, bc |-> <<>>, icms |-> <<>>]

\* one iteration of the aggregator's row loop (lines 548-575)
TotalsRow(acc, r, k_dt, dt_ini, dt_fim) ==
    IF dt_ini # NoDate /\ dt_fim # NoDate
       /\ (k_dt = NoneV \/ ~r.info.has_dt \/ ~PassesWindow(r.info.dt_row, dt_ini, dt_fim))
    THEN acc
    ELSE IF r.info.nfe \/ Strip(r.info.num) = <<>> THEN acc
    ELSE [valor |-> AddTo(acc.valor, r.key_raw, r.info.v_nota),
          bc    |-> AddTo(acc.bc, r.key_raw, r.info.v_bc),
          icms  |-> AddTo(acc.icms, r.key_raw, r.info.v_icms)]

RECURSIVE TotalsRows(_, _, _, _, _, _)
TotalsRows(rows, i, acc, k_dt, dt_ini, dt_fim) ==
    IF i > Len(rows) THEN acc
    ELSE TotalsRows(rows, i + 1, TotalsRow(acc, rows[i], k_dt, dt_ini, dt_fim),
                    k_dt, dt_ini, dt_fim)

\* sum(m.values(), Decimal("0"))
RECURSIVE SumValues(_, _, _)
SumValues(m, i, acc) ==
    IF i > Len(m) THEN acc ELSE SumValues(m, i + 1, DecAdd(acc, m[i][2]))

\* the three totals as the session stores them: {k: str(v)}
TotalsStr(t) ==
    [valor_total |-> DecStr(SumValues(t.valor, 1, DecZero)),
     bc_icms     |-> DecStr(SumValues(t.bc, 1, DecZero)),
     valor_icms  |-> DecStr(SumValues(t.icms, 1, DecZero))]

\* _questor_totais_periodo(ws, dt_ini, dt_fim)
_questor_totais_periodo(info, dt_ini, dt_fim) ==
    IF info.ks.k_num = NoneV THEN TotalsStr(NoTotals)
    ELSE TotalsStr(TotalsRows(info.rows, 1, NoTotals, info.ks.k_dt, dt_ini, dt_fim))

\* what the loops over the registry read from a row's data
SatViewOf(d, num_sat, serie_sat, status) ==
    [dt_em |-> _extr_data_emissao_dict(d),
     num_sat |-> num_sat, serie_sat |-> serie_sat,
     doc |-> _norm_doc(num_sat), pair |-> _norm_pair(num_sat, serie_sat),
     status |-> status,
     status_sat |-> _status_legivel(d),
     valor_sat |-> DecStr(_extr_valor_total_sat(d)),
     id_sat |-> _extr_id_sat(d),
     v_nota |-> _extr_decimal_by_keys(d, CANDS_VALOR_NOTA),
     v_bc   |-> _extr_decimal_by_keys(d, CANDS_BC_ICMS),
     v_icms |-> _extr_decimal_by_keys(d, CANDS_VALOR_ICMS)]

SatView(d) ==
    SatViewOf(d, _numero_documento_sat(d),
              OrEmpty(DictGet(d, _first_key(DictKeys(d), CANDS_SERIE_SAT))),
              _extr_status_sat(d))

\* SatView over the data of the model's registry rows, computed once
SatTable ==
    [d \in { RowData(SatHeaderKeys, c).data : c \in SatRowPool \cup ManyRowPool \cup LetterSatRows }
        |-> SatView(d)]

\* key and key in set(m.keys())
HasKey(m, key) == key # <<>> /\ DictHas(m, key)

\* the membership test of both registry loops (lines 679-682, 732-735)
Present(v, q) ==
    \/ HasKey(q.pair_exato, v.pair[1])
    \/ HasKey(q.pair_digits, v.pair[2])
    \/ HasKey(q.doc_exato, v.doc[1])
    \/ HasKey(q.doc_digits, v.doc[2])

\* m.get(key): <<value>>, or <<>> for None
Lookup(m, key) == IF DictHas(m, key) THEN <<DictGet(m, key)>> ELSE <<>>

Falsy(x) == x = <<>> \/ ~DecTruthy(x[1])

\* a or b or c or d
Or4(a, b, c, d) ==
    IF ~Falsy(a) THEN a ELSE IF ~Falsy(b) THEN b ELSE IF ~Falsy(c) THEN c ELSE d

\* val_q of lines 690-693
MatchedSum(v, q) ==
    Or4(Lookup(q.pair_exato, v.pair[1]), Lookup(q.pair_digits, v.pair[2]),
        Lookup(q.doc_exato, v.doc[1]), Lookup(q.doc_digits, v.doc[2]))

Divergencia(reg, v, val_q) ==
    [linha_excel |-> <<"-">>, documento |-> v.num_sat, serie |-> v.serie_sat, data_emissao |-> IsoFormat(v.dt_em),
     valor_questor |-> DecStr(val_q), status_sat |-> v.status_sat,
     valor_sat |-> v.valor_sat, id_sat |-> v.id_sat,
     sheet_sat |-> reg.sheet, row_sat |-> reg.row]

NoCounts == [divergencias |-> <<>>, candidatos |-> 0, pareadas |-> 0, nao_encontradas |-> 0,
             sat_considerados |-> 0, sat_total_periodo |-> 0]

\* a candidate's part that leaves a candidate without a sum uncounted
CandidateUncounted(acc, reg, v, val_q) ==
    IF val_q = <<>>
    THEN acc
    ELSE IF DecNonZero(val_q[1])
    THEN [acc EXCEPT !.pareadas = @ + 1,
                     !.divergencias = Append(@, Divergencia(reg, v, val_q[1]))]
    ELSE [acc EXCEPT !.pareadas = @ + 1]

\* the candidate's part of the first loop (lines 688-710)
Candidate(acc, reg, v, val_q) ==
    IF val_q = <<>>
    THEN [acc EXCEPT !.nao_encontradas = @ + 1]
    ELSE IF DecNonZero(val_q[1])
    THEN [acc EXCEPT !.pareadas = @ + 1,
                     !.divergencias = Append(@, Divergencia(reg, v, val_q[1]))]
    ELSE [acc EXCEPT !.pareadas = @ + 1]

\* a first loop that takes every present record as a candidate
CancelRowAnyStatus(acc, reg, v, q, dt_ini, dt_fim) ==
    IF ~PassesWindow(v.dt_em, dt_ini, dt_fim) THEN acc
    ELSE IF v.num_sat = <<>> \/ ~Present(v, q)
    THEN [acc EXCEPT !.sat_total_periodo = @ + 1]
    ELSE Candidate([acc EXCEPT !.sat_total_periodo = @ + 1, !.sat_considerados = @ + 1,
                               !.candidatos = @ + 1],
                   reg, v, MatchedSum(v, q))

\* one iteration of the first loop over the registry (lines 667-710)
CancelRow(acc, reg, v, q, dt_ini, dt_fim) ==
    IF ~PassesWindow(v.dt_em, dt_ini, dt_fim) THEN acc
    ELSE IF v.num_sat = <<>> \/ ~Present(v, q)
    THEN [acc EXCEPT !.sat_total_periodo = @ + 1]
    ELSE IF ~_is_cancelado(v.status)
    THEN [acc EXCEPT !.sat_total_periodo = @ + 1, !.sat_considerados = @ + 1]
    ELSE Candidate([acc EXCEPT !.sat_total_periodo = @ + 1, !.sat_considerados = @ + 1,
                               !.candidatos = @ + 1],
                   reg, v, MatchedSum(v, q))

RECURSIVE CancelRows(_, _, _, _, _, _)
CancelRows(regs, i, acc, q, dt_ini, dt_fim) ==
    IF i > Len(regs) THEN acc
    ELSE CancelRows(regs, i + 1,
                    CancelRow(acc, regs[i], SatTable[regs[i].data], q, dt_ini, dt_fim),
                    q, dt_ini, dt_fim)

Fora(reg, v) ==
    [documento |-> v.num_sat, serie |-> v.serie_sat, data_emissao |-> IsoFormat(v.dt_em),
     status_sat |-> v.status_sat, valor_sat |-> v.valor_sat, id_sat |-> v.id_sat,
     sheet_sat |-> reg.sheet, row_sat |-> reg.row]

\* uniq = key_pair_raw or raw_doc or dig_doc
Uniq(v) == IF v.pair[1] # <<>> THEN v.pair[1] ELSE IF v.doc[1] # <<>> THEN v.doc[1] ELSE v.doc[2]

NoFora == [autorizadas_fora |-> <<>>, vistos_aut |-> {}]

\* the second loop with the status test of the first one
ForaRowOfCancelled(acc, reg, v, q, dt_ini, dt_fim) ==
    IF \/ ~PassesWindow(v.dt_em, dt_ini, dt_fim)
       \/ v.num_sat = <<>>
       \/ ~_is_cancelado(v.status)
       \/ Present(v, q)
       \/ Uniq(v) \in acc.vistos_aut
    THEN acc
    ELSE [autorizadas_fora |-> Append(acc.autorizadas_fora, Fora(reg, v)),
          vistos_aut |-> acc.vistos_aut \cup {Uniq(v)}]

\* one iteration of the second loop over the registry (lines 715-748)
ForaRow(acc, reg, v, q, dt_ini, dt_fim) ==
    IF \/ ~PassesWindow(v.dt_em, dt_ini, dt_fim)
       \/ v.num_sat = <<>>
       \/ ~_is_autorizado(v.status)
       \/ Present(v, q)
       \/ Uniq(v) \in acc.vistos_aut
    THEN acc
    ELSE [autorizadas_fora |-> Append(acc.autorizadas_fora, Fora(reg, v)),
          vistos_aut |-> acc.vistos_aut \cup {Uniq(v)}]

RECURSIVE ForaRows(_, _, _, _, _, _)
ForaRows(regs, i, acc, q, dt_ini, dt_fim) ==
    IF i > Len(regs) THEN acc
    ELSE ForaRows(regs, i + 1,
                  ForaRow(acc, regs[i], SatTable[regs[i].data], q, dt_ini, dt_fim),
                  q, dt_ini, dt_fim)

\* a source-side loop that adds every row of the period
SatTotalsRowAll(acc, v, dt_ini, dt_fim) ==
    IF \/ ~PassesWindow(v.dt_em, dt_ini, dt_fim)
       \/ v.num_sat = <<>>
    THEN acc
    ELSE [valor |-> DecAdd(acc.valor, v.v_nota), bc |-> DecAdd(acc.bc, v.v_bc),
          icms |-> DecAdd(acc.icms, v.v_icms), vistos |-> acc.vistos \cup {v.pair[1]}]

NoSatTotals == [valor |-> DecZero, bc |-> DecZero, icms |-> DecZero, vistos |-> {}]

\* one iteration of _sat_totais_periodo's loop (lines 588-605)
SatTotalsRow(acc, v, dt_ini, dt_fim) ==
    IF \/ ~PassesWindow(v.dt_em, dt_ini, dt_fim)
       \/ v.num_sat = <<>>
       \/ v.pair[1] \in acc.vistos
    THEN acc
    ELSE [valor |-> DecAdd(acc.valor, v.v_nota), bc |-> DecAdd(acc.bc, v.v_bc),
          icms |-> DecAdd(acc.icms, v.v_icms), vistos |-> acc.vistos \cup {v.pair[1]}]

RECURSIVE SatTotalsRows(_, _, _, _, _)
SatTotalsRows(regs, i, acc, dt_ini, dt_fim) ==
    IF i > Len(regs) THEN acc
    ELSE SatTotalsRows(regs, i + 1, SatTotalsRow(acc, SatTable[regs[i].data], dt_ini, dt_fim),
                       dt_ini, dt_fim)

SatTotalsStr(t) ==
    [valor_total |-> DecStr(t.valor), bc_icms |-> DecStr(t.bc), valor_icms |-> DecStr(t.icms)]

\* _sat_totais_periodo(qs, dt_ini, dt_fim)
_sat_totais_periodo(regs, dt_ini, dt_fim) ==
    SatTotalsStr(SatTotalsRows(regs, 1, NoSatTotals, dt_ini, dt_fim))

\* the cap of the lists the session stores (20000 in the program)
CAP == 3

\* the whole list
TakeAll(lst, n) == lst
\* lst[:n]
Take(lst, n) == SubSeq(lst, 1, MinOf2(Len(lst), n))

\* the orders in which a queryset without order_by may yield the rows
Orders(rows) ==
    { s \in [1..Cardinality(rows) -> rows] : \A i, j \in 1..Cardinality(rows) : s[i] = s[j] => i = j }

\* request.session["questor_cmp"] (lines 751-770), without the company, the
\* file name and the elapsed time
ResultOf(q, ks, counts, fora, totais_questor, totais_sat, dt_ini, dt_fim) ==
    [linhas_lidas |-> q.lidas_periodo,
     pareadas |-> counts.pareadas,
     nao_encontradas |-> counts.nao_encontradas,
     candidatos_cancelados |-> counts.candidatos,
     resultado |-> Take(counts.divergencias, CAP),
     meta |-> [linhas_lidas_total |-> q.lidas_total, linhas_lidas_periodo |-> q.lidas_periodo,
               col_num |-> ks.k_num, col_val |-> ks.k_val,
               col_serie |-> OrEmpty(ks.k_ser), col_data |-> OrEmpty(ks.k_dt)],
     sat_linhas_periodo |-> counts.sat_total_periodo,
     questor_linhas_periodo |-> q.lidas_periodo,
     sat_considerados |-> counts.sat_considerados,
     inicio |-> IsoFormat(dt_ini), fim |-> IsoFormat(dt_fim),
     totais_questor |-> totais_questor, totais_sat |-> totais_sat,
     sat_autorizadas_fora |-> Take(fora.autorizadas_fora, CAP),
     sat_autorizadas_fora_total |-> Len(fora.autorizadas_fora)]

\* the result of one reconciliation over the registry rows in the order regs
Reconcile(info, q, regs, dt_ini, dt_fim) ==
    ResultOf(q, info.ks,
             CancelRows(regs, 1, NoCounts, q, dt_ini, dt_fim),
             ForaRows(regs, 1, NoFora, q, dt_ini, dt_fim),
             _questor_totais_periodo(info, dt_ini, dt_fim),
             _sat_totais_periodo(regs, dt_ini, dt_fim),
             dt_ini, dt_fim)

\* no stored result: request.session has no "questor_cmp"
NoSession == [none |-> TRUE]

CmpIdle == [pc |-> "idle", sheet |-> <<>>, dt_ini |-> NoDate, dt_fim |-> NoDate,
            q |-> NoMaps, session0 |-> NoSession, msg |-> "none", scan |-> <<>>]

CmpResting == {"idle", "rejected", "schema_error", "warned", "stored"}

CmpInit ==
    /\ session = NoSession
    /\ cmp = CmpIdle
    /\ cmp_runs = 0

\* comparar_questor returning early: no company, no .xlsx file, or a workbook
\* that does not open (lines 615-630)
CmpRejectForm ==
    /\ cmp.pc \in CmpResting
    /\ cmp_runs < MaxCmps
    /\ cmp' = [CmpIdle EXCEPT !.pc = "rejected", !.session0 = session, !.msg = "error"]
    /\ cmp_runs' = cmp_runs + 1
    /\ UNCHANGED <<session, impvars, calc>>

\* comparar_questor returning early: the period's start is after its end
CmpRejectPeriod ==
    /\ cmp.pc \in CmpResting
    /\ cmp_runs < MaxCmps
    /\ \E w \in Windows :
          /\ InvalidPeriod(w)
          /\ cmp' = [CmpIdle EXCEPT !.pc = "rejected", !.dt_ini = w[1], !.dt_fim = w[2],
                                    !.session0 = session, !.msg = "error"]
    /\ cmp_runs' = cmp_runs + 1
    /\ UNCHANGED <<session, impvars, calc>>

\* the request after _questor_map_por_documento (lines 636-642): its maps, or
\* the error message when it raised
Indexed(sh, w, q) ==
    [pc |-> IF q.raised THEN "schema_error" ELSE "indexed",
     sheet |-> sh, dt_ini |-> w[1], dt_fim |-> w[2], q |-> q,
     session0 |-> session, msg |-> IF q.raised THEN "error" ELSE "none", scan |-> <<>>]

\* comparar_questor up to the indexing of the Questor sheet
CmpIndexOver(sheets) ==
    /\ cmp.pc \in CmpResting
    /\ cmp_runs < MaxCmps
    /\ \E sh \in sheets, w \in Windows :
          /\ ~InvalidPeriod(w)
          /\ cmp' = Indexed(sh, w, _questor_map_por_documento(QTable[sh], w[1], w[2]))
    /\ cmp_runs' = cmp_runs + 1
    /\ UNCHANGED <<session, impvars, calc>>

CmpIndex == CmpIndexOver(QSheets)

\* not (set_pair_raw or set_pair_dig or set_doc_raw or set_doc_dig)
NoKeys(q) ==
    q.pair_exato = <<>> /\ q.pair_digits = <<>> /\ q.doc_exato = <<>> /\ q.doc_digits = <<>>

\* the sheet brought no document: a warning, and nothing is stored
\* (lines 652-654)
CmpWarn ==
    /\ cmp.pc = "indexed"
    /\ NoKeys(cmp.q)
    /\ cmp' = [cmp EXCEPT !.pc = "warned", !.msg = "warning"]
    /\ UNCHANGED <<session, cmp_runs, impvars, calc>>

\* the loops over the registry and the session write (lines 656-780)
CmpStore ==
    /\ cmp.pc = "indexed"
    /\ ~NoKeys(cmp.q)
    /\ \E regs \in Orders(db) :
          /\ session' = Reconcile(QTable[cmp.sheet], cmp.q, regs, cmp.dt_ini, cmp.dt_fim)
          /\ cmp' = [cmp EXCEPT !.pc = "stored", !.msg = "success", !.scan = regs]
    /\ UNCHANGED <<cmp_runs, impvars, calc>>

\* one request at a time
\* no helper call under way
NoCall == [fn |-> "none", arg |-> <<>>]

Init == ImportInit /\ CmpInit /\ calc = NoCall
Next == ImportStep(1)
Spec == Init /\ [][Next]_vars

\* imports of workbooks with more rows than a batch holds, into a registry
\* that starts empty and then holds the rows of the import before
MaxBatchRows == 3
MaxBatchRuns == 2
BatchRows == { <<c_jan, c_a>>, <<NoneV, c_b>>, <<<<>>>> }
BatchWorkbooks ==
    { <<[name |-> "A", rows |-> rs]>> :
        rs \in UNION { [1..n -> BatchRows] : n \in 0..MaxBatchRows } }

BeginBatch(p) == BeginWith(p, BatchWorkbooks, {NoDate}, MaxBatchRuns)

NextBatch ==
    \/ BeginBatch(1)
    \/ ProcessRow(1)
    \/ FinalFlush(1)
    \/ Commit(1)
    \/ Fail(1)

SpecBatch == Init /\ [][NextBatch]_vars

\* two requests for the same company, interleaved, over the workbooks
\* ConcWorkbooks
BeginConc(p) == BeginWith(p, ConcWorkbooks, ConcCompParams, MaxConcRuns)
RejectedConc(p) == RejectedWith(p, MaxConcRuns)

NextConc ==
    \E p \in AllProcs :
        \/ BeginConc(p)
        \/ RejectedConc(p)
        \/ ProcessRow(p)
        \/ FinalFlush(p)
        \/ Commit(p)
        \/ Fail(p)

SpecConc == Init /\ [][NextConc]_vars

\* the sheet of an earlier comparison of the session
PriorSheet == [headers |-> QColumns, rows |-> << <<q_1_2, q_1, q_50, c_jan, NoneV>> >>]

\* the results that comparison, without a period, may have stored
PriorSessions(rows) ==
    { Reconcile(QTable[PriorSheet],
                _questor_map_por_documento(QTable[PriorSheet], NoDate, NoDate),
                regs, NoDate, NoDate) : regs \in Orders(rows) }

\* comparison requests of one session over a registry that imports have left;
\* the session holds no result yet, or the result of an earlier comparison
InitCmp ==
    /\ db \in SatRegistries
    /\ imp = [p \in AllProcs |-> Idle]
    /\ runs = 0
    /\ session \in {NoSession} \cup PriorSessions(db)
    /\ cmp = CmpIdle
    /\ cmp_runs = 0
    /\ calc = NoCall

NextCmp ==
    \/ CmpRejectForm
    \/ CmpRejectPeriod
    \/ CmpIndex
    \/ CmpWarn
    \/ CmpStore

SpecCmp == InitCmp /\ [][NextCmp]_vars

\* comparison requests over registries with more findings than a stored list
\* keeps: CAP + 1 cancelled rows of one document, four authorized rows of four
\* documents, and two of each
ManyCancelled == [i \in 1..(CAP + 1) |-> <<q_12, q_1, q_cancelada, c_jan, q_80>>]
ManyAuthorized == <<
    <<q_999, NoneV, q_autorizada_up, c_jan, q_20>>,
    <<q_7, NoneV, q_autorizada, c_jan, q_20>>,
    <<q_12, q_1, q_autorizada, c_feb, q_20>>,
    <<q_1_2, q_1, q_autorizada_up, c_jan, q_20>> >>
ManyMixed == <<
    <<q_12, q_1, q_cancelada, c_jan, q_80>>,
    <<q_999, NoneV, q_autorizada_up, c_jan, q_20>>,
    <<q_12, q_1, q_cancelada, c_jan, q_80>>,
    <<q_7, NoneV, q_autorizada, c_jan, q_20>> >>
ManyRegistries == { Imported(ManyCancelled), Imported(ManyAuthorized), Imported(ManyMixed) }

\* the sheets with every column and at most one row
ManySheets == { sh \in QSheets : sh.headers = QColumns /\ Len(sh.rows) <= 1 }

InitMany ==
    /\ db \in ManyRegistries
    /\ imp = [p \in AllProcs |-> Idle]
    /\ runs = 0
    /\ session = NoSession
    /\ cmp = CmpIdle
    /\ cmp_runs = 0
    /\ calc = NoCall

CmpIndexMany == CmpIndexOver(ManySheets)

NextMany ==
    \/ CmpRejectForm
    \/ CmpRejectPeriod
    \/ CmpIndexMany
    \/ CmpWarn
    \/ CmpStore

SpecMany == InitMany /\ [][NextMany]_vars

\* comparison requests over sheets and registries whose document numbers have
\* no digit
LetterRegistries ==
    { Imported(rs) : rs \in UNION { [1..n -> LetterSatRows] : n \in 1..MaxRegs } }

InitLetters ==
    /\ db \in LetterRegistries
    /\ imp = [p \in AllProcs |-> Idle]
    /\ runs = 0
    /\ session = NoSession
    /\ cmp = CmpIdle
    /\ cmp_runs = 0
    /\ calc = NoCall

CmpIndexLetters == CmpIndexOver(LetterSheets)

NextLetters ==
    \/ CmpRejectForm
    \/ CmpRejectPeriod
    \/ CmpIndexLetters
    \/ CmpWarn
    \/ CmpStore

SpecLetters == InitLetters /\ [][NextLetters]_vars

\* ------------------------------------------------------------------
\* The export request (comparar_questor_csv)
\* ------------------------------------------------------------------

\* a finite Decimal without the trailing zeros of its coefficient
RECURSIVE StripZeros(_)
StripZeros(d) ==
    IF d.c = 0 THEN Dec(d.sg, 0, 0)
    ELSE IF d.c % 10 = 0 THEN StripZeros(Dec(d.sg, d.c \div 10, d.e + 1))
    ELSE d

\* float(d): <<the number>> (as the decimal it stands for; the rounding to a
\* binary double is left out), or <<>> when the conversion raises
FloatOf(d) ==
    IF d = DecInvalid \/ d.c = -4 THEN <<>>
    ELSE IF d.c < 0 THEN <<d>>
    ELSE <<StripZeros(d)>>

FloatZero == Dec(0, 0, 0)

\* the try / except / except of _to_dec
FirstFloat(a, b) == IF a # <<>> THEN a[1] ELSE IF b # <<>> THEN b[1] ELSE FloatZero

\* _to_dec(x) (lines 814-822)
_to_dec(x) ==
    FirstFloat(FloatOf(DecimalOf(ReplaceCh(RemoveCh(PyStr(x), "."), ",", "."))),
               FloatOf(DecimalOf(PyStr(x))))

\* the numbers the export writes: the two rows of period totals, the value
\* columns of the divergence rows and of the authorized-absent rows
ExportOf(data) ==
    [tq |-> [valor_total |-> _to_dec(data.totais_questor.valor_total),
             bc_icms |-> _to_dec(data.totais_questor.bc_icms),
             valor_icms |-> _to_dec(data.totais_questor.valor_icms)],
     ts |-> [valor_total |-> _to_dec(data.totais_sat.valor_total),
             bc_icms |-> _to_dec(data.totais_sat.bc_icms),
             valor_icms |-> _to_dec(data.totais_sat.valor_icms)],
     rows |-> [i \in 1..Len(data.resultado) |->
                 [valor_questor |-> _to_dec(data.resultado[i].valor_questor),
                  valor_sat |-> _to_dec(data.resultado[i].valor_sat)]],
     sat_aut |-> [i \in 1..Len(data.sat_autorizadas_fora) |->
                 [valor_sat |-> _to_dec(data.sat_autorizadas_fora[i].valor_sat)]]]

\* comparar_questor_csv: without a stored result it redirects with an error,
\* with one it writes the workbook
Export ==
    /\ calc.fn = "none"
    /\ calc' = IF session = NoSession
               THEN [fn |-> "comparar_questor_csv", arg |-> session, out |-> "redirect"]
               ELSE [fn |-> "comparar_questor_csv", arg |-> session, out |-> ExportOf(session)]
    /\ UNCHANGED <<impvars, cmpvars>>

NextExport ==
    \/ CmpRejectForm
    \/ CmpRejectPeriod
    \/ CmpIndexMany
    \/ CmpWarn
    \/ CmpStore
    \/ Export

SpecExport == InitMany /\ [][NextExport]_vars

\* ------------------------------------------------------------------
\* Calls of the helper functions on their own
\* ------------------------------------------------------------------

\* the amounts written out as texts: sign, integer part, fraction digits
AmountInts == {0, 7, 12, 1000, 1234, 1234567}
AmountFracs == { <<>>, <<"5">>, <<"5","6">>, <<"0","0">> }
Amounts == [sg : {0, 1}, n : AmountInts, frac : AmountFracs]

\* the integer part with a dot before every group of three digits
RECURSIVE Grouped(_)
Grouped(ds) ==
    IF Len(ds) <= 3 THEN ds
    ELSE Grouped(SubSeq(ds, 1, Len(ds) - 3)) \o <<".">> \o SubSeq(ds, Len(ds) - 2, Len(ds))

SignText(a) == IF a.sg = 1 THEN <<"-">> ELSE <<>>

\* "1.234,56", "1234,56" and "1234.56"
Conventions == {"milhar", "virgula", "ponto"}

Written(a, conv) ==
    IF conv = "milhar" THEN SignText(a) \o Grouped(NatStr(a.n)) \o <<",">> \o a.frac
    ELSE IF conv = "virgula" THEN SignText(a) \o NatStr(a.n) \o <<",">> \o a.frac
    ELSE SignText(a) \o NatStr(a.n) \o (IF a.frac = <<>> THEN <<>> ELSE <<".">> \o a.frac)

\* the comma conventions need fraction digits after the comma
CanWrite(a, conv) == conv = "ponto" \/ a.frac # <<>>

\* a currency prefix and blanks around the text
Decorations == {"plain", "prefix", "prefix_blank", "blanks"}

Decorated(t, dec) ==
    IF dec = "prefix" THEN <<"R","$">> \o t
    ELSE IF dec = "prefix_blank" THEN <<"R","$"," ">> \o t
    ELSE IF dec = "blanks" THEN <<" ">> \o t \o <<" ">>
    ELSE t

\* the amount a text was written from, as a Decimal
AmountValue(a) == Dec(a.sg, IntOf(NatStr(a.n) \o a.frac), 0 - Len(a.frac))

AmountTexts ==
    { Decorated(Written(a, conv), dec) :
        <<a, conv, dec>> \in { x \in Amounts \X Conventions \X Decorations : CanWrite(x[1], x[2]) } }

t_abc == <<"a","b","c">>
t_rs == <<"R","$">>
t_123c == <<"1",",","2",",","3">>
t_123d == <<"1",".","2",".","3">>
t_mm5 == <<"-","-","5">>
t_12a == <<"1","2","a">>
t_NaN == <<"N","a","N">>
t_Infinity == <<"I","n","f","i","n","i","t","y">>
t_minf == <<"-","i","n","f">>
t_sNaN == <<"s","N","a","N">>

\* cell values that are no amount in either convention
NonNumbers ==
    { NoneV, <<>>, t_abc, t_rs, t_123c, t_123d, t_mm5, t_12a,
      t_NaN, t_Infinity, t_minf, t_sNaN }

DecimalInputs == AmountTexts \cup NonNumbers

\* _parse_decimal(v)
CallParseDecimal ==
    /\ calc.fn = "none"
    /\ \E v \in DecimalInputs :
          calc' = [fn |-> "_parse_decimal", arg |-> v, out |-> _parse_decimal(v)]
    /\ UNCHANGED <<impvars, cmpvars>>

\* the calendar dates written out as texts
CalendarDates == { MkDate(2024, 12, 31), MkDate(2024, 2, 29), MkDate(1999, 1, 5), MkDate(2023, 3, 1) }

DateStyles == {"dd/mm/yy", "dd/mm/yyyy", "yyyy-mm-dd", "dd-mm-yyyy", "dd.mm.yyyy"}

DayMonthYear(d, sep) == Pad(d.d, 2) \o <<sep>> \o Pad(d.m, 2) \o <<sep>> \o Pad(d.y, 4)

WrittenDate(d, style) ==
    IF style = "dd/mm/yy" THEN Pad(d.d, 2) \o <<"/">> \o Pad(d.m, 2) \o <<"/">> \o Pad(d.y % 100, 2)
    ELSE IF style = "dd/mm/yyyy" THEN DayMonthYear(d, "/")
    ELSE IF style = "dd-mm-yyyy" THEN DayMonthYear(d, "-")
    ELSE IF style = "dd.mm.yyyy" THEN DayMonthYear(d, ".")
    ELSE IsoFormat(d)

t_hm == <<" ","1","0",":","0","0">>
t_hms == <<" ","1","0",":","0","0",":","0","0">>
t_iso == <<"T","1","0",":","0","0",":","0","0">>
t_isoz == <<"T","1","0",":","0","0",":","0","0","Z">>
t_isofz == <<"T","1","0",":","0","0",":","0","0",".","1","2","3","Z">>
t_feb31 == <<"3","1","/","0","2","/","2","0","2","4">>

\* no time, hours and minutes, hours minutes and seconds
TimeSuffixes == { <<>>, t_hm, t_hms }

\* ISO-8601 times: with T, with T and Z, with fractional seconds
IsoTails == { t_iso, t_isoz, t_isofz }

\* spreadsheet day numbers and the dates they stand for
SerialCases ==
    { <<20000, MkDate(1954, 10, 3)>>, <<45657, MkDate(2024, 12, 31)>>,
      <<80000, MkDate(2119, 1, 11)>> }

\* values that denote no date
NonDates == { NoneV, <<>>, t_abc, t_feb31, NatStr(19999), NatStr(80001) }

DateInputs ==
    { WrittenDate(d, style) \o t : <<d, style, t>> \in CalendarDates \X DateStyles \X TimeSuffixes }
    \cup { IsoFormat(d) \o t : <<d, t>> \in CalendarDates \X IsoTails }
    \cup { NatStr(sc[1]) : sc \in SerialCases }
    \cup NonDates

\* _parse_date_any(v)
CallParseDate ==
    /\ calc.fn = "none"
    /\ \E v \in DateInputs :
          calc' = [fn |-> "_parse_date_any", arg |-> v, out |-> _parse_date_any(v)]
    /\ UNCHANGED <<impvars, cmpvars>>

s_Cancelada == <<"C","a","n","c","e","l","a","d","a">>
s_CANCELADO == <<"C","A","N","C","E","L","A","D","O">>
s_canc_hom == <<"c","a","n","c","e","l","a","m","e","n","t","o"," ","h","o","m","o","l","o","g","a","d","o">>
s_pad_canc == <<" ","C","a","n","c","e","l","a","d","a"," ">>
s_Autorizada == <<"A","u","t","o","r","i","z","a","d","a">>
s_APROVADO == <<"A","P","R","O","V","A","D","O">>
s_Normal == <<"N","o","r","m","a","l">>
s_regular == <<"r","e","g","u","l","a","r">>
s_Emitida == <<"E","m","i","t","i","d","a">>
s_both1 == <<"A","u","t","o","r","i","z","a","d","o"," ","o"," ","c","a","n","c","e","l","a","m","e","n","t","o">>
s_both2 == <<"C","A","N","C","E","L","A","D","A"," ","-"," ","u","s","o"," ","a","u","t","o","r","i","z","a","d","o">>
s_both3 == <<"e","m","i","t","i","d","a"," ","e"," ","c","a","n","c","e","l","a","d","a">>
s_Denegada == <<"D","e","n","e","g","a","d","a">>
s_digit == <<"E","m"," ","d","i","g","i","t","a","c","a","o">>
s_Inutil == <<" ","I","n","u","t","i","l","i","z","a","d","a">>
s_blank == <<" "," ">>
k_situacao == <<"s","i","t","u","a","c","a","o">>

\* status cells: with the cancellation keyword, with an authorization
\* keyword, with both, with neither, blank
StatusTexts ==
    { s_Cancelada, s_CANCELADO, s_canc_hom, s_pad_canc,
      s_Autorizada, s_APROVADO, s_Normal, s_regular, s_Emitida,
      s_both1, s_both2, s_both3,
      s_Denegada, s_digit, s_Inutil, s_blank, <<>> }

\* a registry row's data with the status cell v
StatusDict(v) == << <<k_situacao, v>> >>

\* _is_cancelado, _is_autorizado and _status_legivel on a status cell; an
\* empty cell is stored as None
CallStatus ==
    /\ calc.fn = "none"
    /\ \E v \in StatusTexts \cup {NoneV} :
          calc' = [fn |-> "status", arg |-> v,
                   out |-> [cancelado |-> _is_cancelado(_extr_status_sat(StatusDict(v))),
                            autorizado |-> _is_autorizado(_extr_status_sat(StatusDict(v))),
                            label |-> _status_legivel(StatusDict(v))]]
    /\ UNCHANGED <<impvars, cmpvars>>

fk_serie == <<"s","e","r","i","e">>
fk_Serie == <<"S","e","r","i","e">>
fk_numero == <<"n","u","m","e","r","o">>
fk_num == <<"n","u","m">>
fk_serie_nfce == <<"s","e","r","i","e","_","n","f","c","e">>

\* the field-keys of a row, in the row's order, and ordered candidate lists
MaxKeys == 2
MaxCands == 2
FieldKeyPool == { fk_serie, fk_Serie, fk_numero, fk_serie_nfce }
CandidatePool == { fk_serie, fk_num, fk_numero }
FieldKeyLists ==
    { ks \in UNION { [1..n -> FieldKeyPool] : n \in 0..MaxKeys } :
        \A i, j \in 1..Len(ks) : ks[i] = ks[j] => i = j }
CandidateLists == UNION { [1..n -> CandidatePool] : n \in 1..MaxCands }

\* _first_key(d, candidates) on a row with the field-keys ks
CallFirstKey ==
    /\ calc.fn = "none"
    /\ \E ks \in FieldKeyLists, cs \in CandidateLists :
          calc' = [fn |-> "_first_key", arg |-> [keys |-> ks, candidates |-> cs],
                   out |-> _first_key(ks, cs)]
    /\ UNCHANGED <<impvars, cmpvars>>

k_especie == <<"e","s","p","e","c","i","e">>
k_modelo == <<"m","o","d","e","l","o">>
k_chave == <<"c","h","a","v","e">>
v_cupom == <<"C","u","p","o","m">>
v_both == <<"N","F","-","e"," ","/"," ","N","F","C","-","e">>
v_01 == <<"0","1">>

\* an access key of n digits with the model code at offsets 20-21
AccessKey(code, n) == [i \in 1..n |-> IF i = 21 THEN code[1] ELSE IF i = 22 THEN code[2] ELSE "0"]

\* the kind, model and access-key cells of a counterpart row; <<>> stands for
\* a sheet without the column
KindCells == { <<>>, <<q_nfce>>, <<q_nfe>>, <<v_both>>, <<w_65>>, <<w_55>>, <<v_cupom>>, <<<<>>>> }
ModelCells == { <<>>, <<w_65>>, <<w_55>>, <<v_01>>, <<<<>>>> }
AccessKeyCells ==
    { <<>>, <<AccessKey(w_55, 44)>>, <<AccessKey(w_65, 44)>>, <<AccessKey(w_65, 22)>>,
      <<AccessKey(w_55, 21)>>, <<AccessKey(v_01, 44)>> }

\* the row's dict with the columns that are there
FieldOf(k, cell) == IF cell = <<>> THEN <<>> ELSE << <<k, cell[1]>> >>
ClassifierDict(kind, model, key) ==
    FieldOf(k_especie, kind) \o FieldOf(k_modelo, model) \o FieldOf(k_chave, key)

\* _is_nfe_questor(d) on a row with the three cells
CallClassifier ==
    /\ calc.fn = "none"
    /\ \E kind \in KindCells, model \in ModelCells, key \in AccessKeyCells :
          calc' = [fn |-> "_is_nfe_questor",
                   arg |-> [kind |-> kind, model |-> model, key |-> key],
                   out |-> _is_nfe_questor(ClassifierDict(kind, model, key))]
    /\ UNCHANGED <<impvars, cmpvars>>

NextFn ==
    \/ CallParseDecimal
    \/ CallParseDate
    \/ CallStatus
    \/ CallFirstKey
    \/ CallClassifier

SpecFn == Init /\ [][NextFn]_vars

\* ------------------------------------------------------------------
\* Properties of sat_importar
\* ------------------------------------------------------------------

\* every cell of the row is None or the empty string
IsBlankRow(row) == \A i \in 1..Len(row) : row[i] = NoneV \/ row[i] = <<>>

\* the positions <<sheet index, data row index>> of a workbook
Positions(wb) == { <<s, i>> : s \in 1..Len(wb), i \in 1..MaxRows } \cap
                 { pos \in (1..Len(wb)) \X (1..MaxRows) : pos[2] <= Len(wb[pos[1]].rows) }

NonBlankCount(wb) ==
    Cardinality({ pos \in Positions(wb) : ~IsBlankRow(wb[pos[1]].rows[pos[2]]) })

\* the positions the row loop of request p has gone through
Processed(p) ==
    { pos \in Positions(imp[p].wb) :
        pos[1] < imp[p].si \/ (pos[1] = imp[p].si /\ pos[2] < imp[p].ri) }

SamePlace(x, y) == x.sheet = y.sheet /\ x.row = y.row

\* C1: a second import, right after a completed one, of the same workbook with
\* the same fallback competency leaves the number of persisted rows as the
\* first left it, reports no created row and counts every non-blank row as
\* updated.
C1_Idempotent ==
    (imp[1].pc = "done" /\ imp[1].rerun) =>
        /\ Cardinality(db) = Cardinality(imp[1].db0)
        /\ imp[1].criados = 0
        /\ imp[1].atualizados = NonBlankCount(imp[1].wb)

C1_Witness ==
    /\ imp[1].pc = "done" /\ imp[1].rerun
    /\ imp[1].atualizados = 2
    /\ \E o \in imp[1].ops : o.op = "update" /\ o.competencia = NoDate
    /\ \E o \in imp[1].ops : o.op = "update" /\ o.competencia # NoDate

\* C2: when an imported row's competency differs from that of the rows
\* persisted for its sheet and row number, the completed import has created
\* a new row under the new competency, and every persisted row of that sheet
\* and row number with another competency is still in the registry with all
\* its fields as they were.
C2_ChangeInserts ==
    imp[1].pc = "done" =>
        \A o \in imp[1].ops :
            o.op # "skip" =>
                /\ \A x \in imp[1].db0 :
                      (SamePlace(x, o) /\ x.competencia # o.competencia) => x \in db
                /\ ( /\ \E x \in imp[1].db0 : SamePlace(x, o)
                     /\ \A x \in imp[1].db0 : SamePlace(x, o) => x.competencia # o.competencia )
                   => /\ o.op = "create"
                      /\ \E y \in db :
                            /\ SamePlace(y, o) /\ y.competencia = o.competencia
                            /\ \A x \in imp[1].db0 : x.id # y.id

C2_Witness ==
    /\ imp[1].pc = "done"
    /\ \E o \in imp[1].ops, x \in imp[1].db0 :
          /\ o.op = "create" /\ SamePlace(x, o)
          /\ x.competencia = MkDate(2024, 1, 1) /\ o.competencia = MkDate(2024, 2, 1)
          /\ x \in db

\* C3: no two persisted rows of the company share competency, sheet and row
\* number when the competency is not null, whatever the interleaving of two
\* concurrent imports.
C3_UniqueKey ==
    \A x, y \in db :
        ( /\ x.competencia # NoDate
          /\ x.competencia = y.competencia
          /\ SamePlace(x, y) ) => x = y

C3_Witness ==
    /\ imp[1].pc = "done" /\ imp[2].pc = "done"
    /\ \E o1 \in imp[1].ops, o2 \in imp[2].ops :
          /\ o1.op = "create" /\ o2.op = "create"
          /\ ~o1.existed /\ ~o2.existed
          /\ SamePlace(o1, o2)
          /\ o1.competencia # NoDate /\ o1.competencia = o2.competencia

\* C4 (as stated): a row whose competency is null is always staged as an
\* insert, never as an update.
C4_NullNeverUpdated ==
    \A o \in imp[1].ops : (o.op # "skip" /\ o.competencia = NoDate) => o.op = "create"

\* C4 (amended): a row whose competency is null is staged as an update exactly
\* when a persisted row with null competency and the same sheet and row
\* number was loaded at the start of the import, and as an insert otherwise.
C4_NullMatchedWhenLoaded ==
    \A o \in imp[1].ops :
        (o.op # "skip" /\ o.competencia = NoDate) =>
            /\ o.op \in {"create", "update"}
            /\ o.op = "update" <=>
                 \E x \in imp[1].db0 : x.competencia = NoDate /\ SamePlace(x, o)

C4_Witness ==
    /\ imp[1].pc = "done"
    /\ \E o \in imp[1].ops : o.op = "update" /\ o.competencia = NoDate
    /\ Cardinality({ x \in db : x.competencia = NoDate }) = 1

\* C5: after a failure inside a started import, also one that comes after a
\* batch was flushed, the registry is what it was when the import began.
C5_FailureRollsBack ==
    imp[1].pc = "failed" => db = imp[1].db0

C5_Witness ==
    /\ imp[1].pc = "failed"
    /\ imp[1].flushes >= 1
    /\ imp[1].criados = BATCH
    /\ imp[1].db0 # {}

\* C6: a data row whose cells are all None or empty adds one to the skipped
\* count and is neither inserted nor updated, and the rows after it keep
\* their physical row numbers (data row i of a sheet is row i + 1).
C6_BlankRowSkipped ==
    /\ imp[1].ignorados_vazios =
          Cardinality({ pos \in Processed(1) : IsBlankRow(imp[1].wb[pos[1]].rows[pos[2]]) })
    /\ \A pos \in Processed(1) :
          IF IsBlankRow(imp[1].wb[pos[1]].rows[pos[2]])
          THEN /\ \A o \in imp[1].ops :
                     (o.sheet = imp[1].wb[pos[1]].name /\ o.row = pos[2] + 1) => o.op = "skip"
               /\ \A x \in imp[1].ins \cup imp[1].upd
                           \cup { imp[1].to_create[k] : k \in 1..Len(imp[1].to_create) }
                           \cup { imp[1].to_update[k] : k \in 1..Len(imp[1].to_update) } :
                     ~(x.sheet = imp[1].wb[pos[1]].name /\ x.row = pos[2] + 1)
               /\ imp[1].pc = "done" =>
                     \A x \in db \ imp[1].db0 :
                         ~(x.sheet = imp[1].wb[pos[1]].name /\ x.row = pos[2] + 1)
          ELSE /\ \E o \in imp[1].ops :
                     /\ o.sheet = imp[1].wb[pos[1]].name /\ o.row = pos[2] + 1
                     /\ o.op \in {"create", "update"}
               /\ imp[1].pc = "done" =>
                     \E x \in db :
                         /\ x.sheet = imp[1].wb[pos[1]].name /\ x.row = pos[2] + 1
                         /\ x.data = RowTable[imp[1].wb[pos[1]].rows[pos[2]]].data

C6_Witness ==
    /\ imp[1].pc = "done"
    /\ Len(imp[1].wb) = 1 /\ Len(imp[1].wb[1].rows) = 2
    /\ IsBlankRow(imp[1].wb[1].rows[1]) /\ ~IsBlankRow(imp[1].wb[1].rows[2])
    /\ imp[1].ignorados_vazios = 1
    /\ imp[1].criados = 1
    /\ \E x \in db : x.row = 3
    /\ \A x \in db : x.row # 2

\* ------------------------------------------------------------------
\* Properties of comparar_questor
\* ------------------------------------------------------------------

\* the request went through _questor_map_por_documento
CmpRan == cmp.pc \in {"schema_error", "indexed", "warned", "stored"}

\* the registry holds one row, imported from cells
OnlyRecord(cells) == db = Imported(<<cells>>)

\* no row of the sheet carries the keys of the registry row v in any of the
\* four forms; a row's cells are read through the resolved columns
RowAway(r, v) ==
    /\ r.pair[1] # v.pair[1] /\ r.pair[2] # v.pair[2]
    /\ r.doc[1] # v.doc[1] /\ r.doc[2] # v.doc[2]

SheetAway(sh, v) == \A i \in 1..Len(QTable[sh].rows) : RowAway(QTable[sh].rows[i], v)

\* C7 (as stated): with one cancelled registry row, document "123" series "1",
\* and one Questor row, document "0123" series "01" value 150.00, the stored
\* result has exactly one divergence, whose Questor value is 150.00, and a
\* not-found count of 0.
C7_LeadingZerosMatch ==
    ( /\ cmp.pc = "stored"
      /\ OnlyRecord(<<q_123, q_1, q_cancelada, c_jan, q_150>>)
      /\ cmp.sheet = [headers |-> QColumns,
                      rows |-> << <<q_0123, q_01, q_150, c_jan, q_nfce>> >>] )
    => /\ Len(session.resultado) = 1
       /\ session.resultado[1].valor_questor = q_150
       /\ session.nao_encontradas = 0

\* the registry holds the one authorized row of document "999"
C8_Scenario ==
    /\ OnlyRecord(<<q_999, NoneV, q_autorizada_up, c_jan, q_20>>)
    /\ cmp.pc \in {"warned", "stored"}
    /\ SheetAway(cmp.sheet, SatTable[RowData(SatHeaderKeys,
                                             <<q_999, NoneV, q_autorizada_up, c_jan, q_20>>).data])

\* C8 (as stated): with one authorized registry row of document "999" and a
\* Questor sheet none of whose rows carries that document in any key form, a
\* sheet without matchable rows included, the request stores a result with
\* exactly one authorized-absent finding and no divergence (no period given).
C8_AbsentAlwaysReported ==
    (C8_Scenario /\ cmp.dt_ini = NoDate /\ cmp.dt_fim = NoDate)
    => /\ cmp.pc = "stored"
       /\ Len(session.sat_autorizadas_fora) = 1
       /\ session.resultado = <<>>

\* C8 (amended): in that scenario, when the sheet yields at least one
\* matchable row and the registry row's issue date passes the period filter,
\* the request stores a result with exactly one authorized-absent finding,
\* for document "999", and no divergence; when the sheet yields no matchable
\* row the request ends with a warning and the stored result is left as it was.
C8_AbsentReportedWhenIndexed ==
    C8_Scenario =>
        IF /\ cmp.q.pair_exato = <<>> /\ cmp.q.pair_digits = <<>>
           /\ cmp.q.doc_exato = <<>> /\ cmp.q.doc_digits = <<>>
        THEN cmp.pc = "warned" /\ session = cmp.session0
        ELSE /\ cmp.pc = "stored"
             /\ session.resultado = <<>>
             /\ IF PassesWindow(MkDate(2024, 1, 15), cmp.dt_ini, cmp.dt_fim)
                THEN /\ Len(session.sat_autorizadas_fora) = 1
                     /\ session.sat_autorizadas_fora_total = 1
                     /\ session.sat_autorizadas_fora[1].documento = q_999
                ELSE session.sat_autorizadas_fora = <<>>

C8_Witness ==
    /\ C8_Scenario
    /\ cmp.pc = "stored"
    /\ Len(cmp.sheet.rows) = 2
    /\ Len(session.sat_autorizadas_fora) = 1
    /\ session.sat_autorizadas_fora[1].status_sat = w_AUTORIZADA
    /\ session.resultado = <<>>

\* the sum stored in the first table, in the order pair-exact, pair-digits,
\* doc-exact, doc-digits, that contains the key of v
FirstTableSum(v, q) ==
    IF HasKey(q.pair_exato, v.pair[1]) THEN DictGet(q.pair_exato, v.pair[1])
    ELSE IF HasKey(q.pair_digits, v.pair[2]) THEN DictGet(q.pair_digits, v.pair[2])
    ELSE IF HasKey(q.doc_exato, v.doc[1]) THEN DictGet(q.doc_exato, v.doc[1])
    ELSE DictGet(q.doc_digits, v.doc[2])

\* the registry rows the first loop takes as candidates
IsCandidate(reg) ==
    /\ PassesWindow(SatTable[reg.data].dt_em, cmp.dt_ini, cmp.dt_fim)
    /\ SatTable[reg.data].num_sat # <<>>
    /\ Present(SatTable[reg.data], cmp.q)
    /\ _is_cancelado(SatTable[reg.data].status)

DivergenciasOf(reg) ==
    { i \in 1..Len(session.resultado) :
        session.resultado[i].sheet_sat = reg.sheet /\ session.resultado[i].row_sat = reg.row }

\* C9 (as stated): for every cancelled registry row present in the Questor
\* tables, the sum the result reports is the one stored in the first of the
\* four tables, in priority order, that contains the row's key: a divergence
\* with that sum when it is not zero, no divergence when it is zero.
C9_LookupPriority ==
    cmp.pc = "stored" =>
        \A reg \in db :
            IsCandidate(reg) =>
                IF DecNonZero(FirstTableSum(SatTable[reg.data], cmp.q))
                THEN /\ DivergenciasOf(reg) # {}
                     /\ \A i \in DivergenciasOf(reg) :
                           session.resultado[i].valor_questor =
                               DecStr(FirstTableSum(SatTable[reg.data], cmp.q))
                ELSE DivergenciasOf(reg) = {}

\* C10: a request whose sheet has no resolvable document-number column or no
\* resolvable value column ends with an error before any row is indexed, and
\* the stored comparison result is what it was before the request.
C10_SchemaAbort ==
    ( /\ CmpRan
      /\ \/ QTable[cmp.sheet].ks.k_num = NoneV
         \/ QTable[cmp.sheet].ks.k_val = NoneV )
    => /\ cmp.pc = "schema_error"
       /\ cmp.msg = "error"
       /\ cmp.q.lidas_total = 0
       /\ NoKeys(cmp.q)
       /\ session = cmp.session0

C10_Witness ==
    /\ cmp.pc = "schema_error"
    /\ QTable[cmp.sheet].ks.k_num # NoneV
    /\ QTable[cmp.sheet].ks.k_val = NoneV
    /\ Len(cmp.sheet.rows) = 2
    /\ session # NoSession
    /\ session = cmp.session0

\* ------------------------------------------------------------------
\* Properties of the helper functions
\* ------------------------------------------------------------------

\* every text an amount was written as parses to that amount
ExactOnAmounts ==
    calc.fn = "_parse_decimal" =>
        \A a \in Amounts : \A conv \in Conventions : \A dec \in Decorations :
            (CanWrite(a, conv) /\ calc.arg = Decorated(Written(a, conv), dec))
                => calc.out = AmountValue(a)

\* every value that is no amount parses to zero
ZeroOnNonNumbers ==
    (calc.fn = "_parse_decimal" /\ calc.arg \in NonNumbers) => calc.out = DecZero

\* C11 (as stated): _parse_decimal returns exactly the intended amount for
\* every text in the 1.234,56 or the 1234.56 convention, with or without an
\* R$ prefix and blanks, and returns exactly zero, raising nothing, for every
\* input that is no decimal amount.
C11_ExactAndTotal == ExactOnAmounts /\ ZeroOnNonNumbers

\* the texts of one style, with or without a time, parse to the date written
StyleParses(style) ==
    \A d \in CalendarDates : \A t \in TimeSuffixes :
        calc.arg = WrittenDate(d, style) \o t => calc.out = d

IsoParses ==
    \A d \in CalendarDates : \A t \in IsoTails :
        calc.arg = IsoFormat(d) \o t => calc.out = d

SerialParses == \A sc \in SerialCases : calc.arg = NatStr(sc[1]) => calc.out = sc[2]

\* C12 (as stated): _parse_date_any returns the date written, never null, for
\* a valid date in each of the styles DD/MM/YY, DD/MM/YYYY, YYYY-MM-DD,
\* DD-MM-YYYY and DD.MM.YYYY, with or without a time after it, for ISO-8601
\* texts with T, Z and fractional seconds, and for a day number n with
\* 20000 <= n <= 80000 returns 1899-12-30 plus n days.
C12_DatesParse ==
    calc.fn = "_parse_date_any" =>
        /\ \A style \in DateStyles : StyleParses(style)
        /\ IsoParses
        /\ SerialParses

\* ------------------------------------------------------------------
\* Properties of the stored result
\* ------------------------------------------------------------------

\* the divergences and the authorized-absent findings of the two loops over
\* the registry in the order the request scanned it, before any cut
AllDivergencias ==
    CancelRows(cmp.scan, 1, NoCounts, cmp.q, cmp.dt_ini, cmp.dt_fim).divergencias

AllFora ==
    ForaRows(cmp.scan, 1, NoFora, cmp.q, cmp.dt_ini, cmp.dt_fim).autorizadas_fora

\* kept is full cut to its first cap entries
IsCappedPrefix(kept, full, cap) ==
    /\ Len(kept) <= cap
    /\ Len(kept) = (IF Len(full) <= cap THEN Len(full) ELSE cap)
    /\ \A i \in 1..Len(kept) : kept[i] = full[i]

\* where the registry row of a finding stands in the scan
ScanPos(e) ==
    CHOOSE k \in 1..Len(cmp.scan) :
        cmp.scan[k].sheet = e.sheet_sat /\ cmp.scan[k].row = e.row_sat

InScanOrder(lst) == \A i, j \in 1..Len(lst) : i < j => ScanPos(lst[i]) < ScanPos(lst[j])

\* C13: in every stored result the divergence list and the authorized-absent
\* list hold at most CAP entries (20000 in the code), each is the prefix, in
\* scan order, of the full list of findings, and the authorized-absent total
\* is the length of the full list.
C13_ListsCapped ==
    cmp.pc = "stored" =>
        /\ IsCappedPrefix(session.resultado, AllDivergencias, CAP)
        /\ IsCappedPrefix(session.sat_autorizadas_fora, AllFora, CAP)
        /\ InScanOrder(session.resultado)
        /\ InScanOrder(session.sat_autorizadas_fora)
        /\ session.sat_autorizadas_fora_total = Len(AllFora)

C13_Witness ==
    /\ cmp.pc = "stored"
    /\ Len(AllFora) = CAP + 1
    /\ Len(session.sat_autorizadas_fora) = CAP
    /\ session.sat_autorizadas_fora_total = CAP + 1

\* ------------------------------------------------------------------
\* Properties of the Questor indexer
\* ------------------------------------------------------------------

\* the request indexed its sheet without raising
CmpIndexedOk == cmp.pc \in {"indexed", "warned", "stored"}

\* the kind cell of a sheet row (the last column of every sheet)
IsInvoiceRow(row) == row[Len(row)] = q_nfe
IsReceiptRow(row) == row[Len(row)] = q_nfce
NotInvoiceRow(row) == ~IsInvoiceRow(row)
NotReceiptRow(row) == ~IsReceiptRow(row)

WithoutInvoices(sh) == [headers |-> sh.headers, rows |-> SelectSeq(sh.rows, NotInvoiceRow)]
WithoutReceipts(sh) == [headers |-> sh.headers, rows |-> SelectSeq(sh.rows, NotReceiptRow)]

\* the four lookup tables of the request are those of the sheet sh
SameTablesAs(sh) ==
    /\ cmp.q.pair_exato = _questor_map_por_documento(QTable[sh], cmp.dt_ini, cmp.dt_fim).pair_exato
    /\ cmp.q.pair_digits = _questor_map_por_documento(QTable[sh], cmp.dt_ini, cmp.dt_fim).pair_digits
    /\ cmp.q.doc_exato = _questor_map_por_documento(QTable[sh], cmp.dt_ini, cmp.dt_fim).doc_exato
    /\ cmp.q.doc_digits = _questor_map_por_documento(QTable[sh], cmp.dt_ini, cmp.dt_fim).doc_digits

\* row i of the request's sheet passes the date filter and has a document number
Indexable(i) ==
    /\ PassesWindow(QTable[cmp.sheet].rows[i].info.dt_row, cmp.dt_ini, cmp.dt_fim)
    /\ Strip(QTable[cmp.sheet].rows[i].info.raw_num) # <<>>

\* the key of row i is in the tables of its family
Contributes(i) ==
    IF QTable[cmp.sheet].rows[i].info.serie # <<>>
    THEN /\ DictHas(cmp.q.pair_exato, QTable[cmp.sheet].rows[i].pair[1])
         /\ DictHas(cmp.q.pair_digits, QTable[cmp.sheet].rows[i].pair[2])
    ELSE /\ DictHas(cmp.q.doc_exato, QTable[cmp.sheet].rows[i].doc[1])
         /\ DictHas(cmp.q.doc_digits, QTable[cmp.sheet].rows[i].doc[2])

\* C14 (as stated): a Questor row identified as receipt-type (NFC-e) never
\* contributes to any of the four lookup tables, while a row identified as
\* invoice-type (NF-e) does contribute.
C14_ReceiptRowsSkipped ==
    CmpIndexedOk =>
        /\ SameTablesAs(WithoutReceipts(cmp.sheet))
        /\ \A i \in 1..Len(cmp.sheet.rows) :
              (IsInvoiceRow(cmp.sheet.rows[i]) /\ Indexable(i)) => Contributes(i)

\* C14 (amended): a Questor row identified as invoice-type (NF-e) never
\* contributes to any of the four lookup tables: the tables are those of the
\* sheet without its invoice rows. A row identified as receipt-type (NFC-e),
\* and a row of no identified kind, contributes when it passes the date
\* filter and has a document number.
C14_InvoiceRowsSkipped ==
    CmpIndexedOk =>
        /\ SameTablesAs(WithoutInvoices(cmp.sheet))
        /\ \A i \in 1..Len(cmp.sheet.rows) :
              (NotInvoiceRow(cmp.sheet.rows[i]) /\ Indexable(i)) => Contributes(i)

C14_Witness ==
    /\ cmp.pc = "indexed"
    /\ cmp.sheet.headers = QColumns
    /\ Len(cmp.sheet.rows) = 2
    /\ IsInvoiceRow(cmp.sheet.rows[1]) /\ Indexable(1)
    /\ IsReceiptRow(cmp.sheet.rows[2]) /\ Indexable(2)
    /\ DictKeys(cmp.q.pair_exato) = <<QTable[cmp.sheet].rows[2].pair[1]>>

\* row i of the request's sheet is accumulated: it passes the date filter, is
\* no invoice and has a document number
Accumulated(i) == Indexable(i) /\ NotInvoiceRow(cmp.sheet.rows[i])

HasSeries(i) == QTable[cmp.sheet].rows[i].info.serie # <<>>

\* the key of row i in a table: "pair_exato", "pair_digits", "doc_exato",
\* "doc_digits"
KeyIn(table, i) ==
    IF table = "pair_exato" THEN QTable[cmp.sheet].rows[i].pair[1]
    ELSE IF table = "pair_digits" THEN QTable[cmp.sheet].rows[i].pair[2]
    ELSE IF table = "doc_exato" THEN QTable[cmp.sheet].rows[i].doc[1]
    ELSE QTable[cmp.sheet].rows[i].doc[2]

\* the accumulated rows that belong to a table's family
Feeds(table, i) ==
    Accumulated(i) /\ (HasSeries(i) <=> table \in {"pair_exato", "pair_digits"})

\* the sum of the values of the rows 1..n that feed a table under a key
RECURSIVE SumOfRows(_, _, _)
SumOfRows(table, key, n) ==
    IF n = 0 THEN DecZero
    ELSE IF Feeds(table, n) /\ KeyIn(table, n) = key
    THEN DecAdd(SumOfRows(table, key, n - 1), QTable[cmp.sheet].rows[n].info.val_q)
    ELSE SumOfRows(table, key, n - 1)

\* a table holds exactly the keys of the rows that feed it, each with the sum
\* of those rows' values
TableIsSumOfRows(table, m) ==
    /\ \A i \in 1..Len(cmp.sheet.rows) : Feeds(table, i) => DictHas(m, KeyIn(table, i))
    /\ \A k \in 1..Len(m) :
          /\ \E i \in 1..Len(cmp.sheet.rows) : Feeds(table, i) /\ KeyIn(table, i) = m[k][1]
          /\ m[k][2] = SumOfRows(table, m[k][1], Len(cmp.sheet.rows))
          /\ \A l \in 1..Len(m) : m[l][1] = m[k][1] => l = k

\* C15: every accumulated row of the sheet updates exactly one family of
\* tables: with a series both pair tables and no document-only table, without
\* one both document-only tables and no pair table; every entry of a table is
\* the sum of the values of the rows that produced its key.
C15_OneFamilyPerRow ==
    CmpIndexedOk =>
        /\ TableIsSumOfRows("pair_exato", cmp.q.pair_exato)
        /\ TableIsSumOfRows("pair_digits", cmp.q.pair_digits)
        /\ TableIsSumOfRows("doc_exato", cmp.q.doc_exato)
        /\ TableIsSumOfRows("doc_digits", cmp.q.doc_digits)

C15_Witness ==
    /\ cmp.pc = "indexed"
    /\ Len(cmp.sheet.rows) = 2
    /\ Accumulated(1) /\ HasSeries(1)
    /\ Accumulated(2) /\ ~HasSeries(2)
    /\ QTable[cmp.sheet].rows[1].doc = QTable[cmp.sheet].rows[2].doc
    /\ Len(cmp.q.pair_exato) = 1 /\ Len(cmp.q.pair_digits) = 1
    /\ Len(cmp.q.doc_exato) = 1 /\ Len(cmp.q.doc_digits) = 1
    /\ cmp.q.doc_exato[1][2] = QTable[cmp.sheet].rows[2].info.val_q

\* ------------------------------------------------------------------
\* Properties of the reconciliation
\* ------------------------------------------------------------------

\* the sums the four tables hold for the keys of a registry row
SumsFound(v, q) ==
    { Lookup(q.pair_exato, v.pair[1]), Lookup(q.pair_digits, v.pair[2]),
      Lookup(q.doc_exato, v.doc[1]), Lookup(q.doc_digits, v.doc[2]) } \ { <<>> }

\* the registry row is in the date window, has a document number and is in
\* one of the four key sets
IsPresent(reg) ==
    /\ PassesWindow(SatTable[reg.data].dt_em, cmp.dt_ini, cmp.dt_fim)
    /\ SatTable[reg.data].num_sat # <<>>
    /\ Present(SatTable[reg.data], cmp.q)

\* the sum matched for the registry row is not zero: the lookup of lines
\* 690-693 yields the first non-zero sum found, if there is one
MatchedNonZero(reg) == \E x \in SumsFound(SatTable[reg.data], cmp.q) : DecNonZero(x[1])

HasKeyword(t, w) == Contains(Lower(t), w)
HasCancelKeyword(t) == HasKeyword(t, <<"c","a","n","c","e","l">>)
HasAuthKeyword(t) ==
    \/ HasKeyword(t, <<"a","u","t","o","r","i","z">>)
    \/ HasKeyword(t, <<"a","p","r","o","v">>)
    \/ HasKeyword(t, <<"n","o","r","m","a","l">>)
    \/ HasKeyword(t, <<"r","e","g","u","l","a","r">>)
    \/ HasKeyword(t, <<"e","m","i","t","i","d">>)

\* C17: a status text with the cancellation keyword classifies as cancelled
\* and never as authorized, also when it has an authorization keyword;
\* without it the text is authorized iff it has an authorization keyword, and
\* unknown otherwise. The label is CANCELADA, AUTORIZADA, or the text in
\* upper case, or DESCONHECIDO when the text is empty.
C17_StatusClasses ==
    (calc.fn = "status" /\ calc.arg \in StatusTexts) =>
        /\ calc.out.cancelado = HasCancelKeyword(calc.arg)
        /\ calc.out.autorizado = (~HasCancelKeyword(calc.arg) /\ HasAuthKeyword(calc.arg))
        /\ ~(calc.out.cancelado /\ calc.out.autorizado)
        /\ calc.out.label =
              (IF HasCancelKeyword(calc.arg) THEN <<"C","A","N","C","E","L","A","D","A">>
               ELSE IF HasAuthKeyword(calc.arg) THEN <<"A","U","T","O","R","I","Z","A","D","A">>
               ELSE IF Strip(calc.arg) = <<>>
                    THEN <<"D","E","S","C","O","N","H","E","C","I","D","O">>
               ELSE Upper(Strip(calc.arg)))

C17_Witness ==
    /\ calc.fn = "status"
    /\ HasCancelKeyword(calc.arg) /\ HasAuthKeyword(calc.arg)
    /\ calc.out.cancelado /\ ~calc.out.autorizado
    /\ calc.out.label = w_CANCELADA

---------------------------------------------------------------------------
\* Properties of the period totals

CmpStored == cmp.pc = "stored"

\* the sum of the values at the positions idx
RECURSIVE SumOfPicked(_, _, _)
SumOfPicked(vals, idx, i) ==
    IF i > Len(vals) THEN DecZero
    ELSE DecAdd(IF i \in idx THEN vals[i] ELSE DecZero, SumOfPicked(vals, idx, i + 1))

\* the rows read from the uploaded sheet, and the registry rows in the order
\* the request scanned them
SheetRows == QTable[cmp.sheet].rows
ScanView(i) == SatTable[cmp.scan[i].data]

\* row i of the sheet is a comparable row of the period
QInPeriod(i) ==
    /\ ~SheetRows[i].info.nfe
    /\ Strip(SheetRows[i].info.num) # <<>>
    /\ (cmp.dt_ini # NoDate /\ cmp.dt_fim # NoDate) =>
          /\ SheetRows[i].info.has_dt
          /\ SheetRows[i].info.dt_row # NoDate
          /\ InWindow(SheetRows[i].info.dt_row, cmp.dt_ini, cmp.dt_fim)

\* registry row i of the scan is a row of the period with a document number
SatInPeriod(i) ==
    /\ ScanView(i).num_sat # <<>>
    /\ (cmp.dt_ini # NoDate /\ cmp.dt_fim # NoDate) =>
          (ScanView(i).dt_em # NoDate /\ InWindow(ScanView(i).dt_em, cmp.dt_ini, cmp.dt_fim))

SamePairKey(i, j) == ScanView(i).pair[1] = ScanView(j).pair[1]

\* the first row of the period scanned for its pair key
SatFirstOfKey(i) ==
    SatInPeriod(i) /\ \A j \in 1..(i - 1) : ~(SatInPeriod(j) /\ SamePairKey(i, j))

\* C18: the Questor total is the sum of the values of all the comparable
\* rows of the period, rows repeating a document+series pair key included;
\* the SAT total is the sum of the values of the first row scanned for each
\* pair key only.
C18_TotalsAsymmetry ==
    CmpStored =>
        /\ session.totais_questor.valor_total =
              DecStr(SumOfPicked([i \in 1..Len(SheetRows) |-> SheetRows[i].info.v_nota],
                           { i \in 1..Len(SheetRows) : QInPeriod(i) }, 1))
        /\ session.totais_sat.valor_total =
              DecStr(SumOfPicked([i \in 1..Len(cmp.scan) |-> ScanView(i).v_nota],
                           { i \in 1..Len(cmp.scan) : SatFirstOfKey(i) }, 1))

\* both sides repeat a pair key inside the period, with non-zero values, the
\* two registry rows with different ones; the Questor total counts both of
\* its rows and the SAT total the first one alone
C18_Witness ==
    /\ CmpStored
    /\ Len(SheetRows) = 2 /\ QInPeriod(1) /\ QInPeriod(2)
    /\ SheetRows[1].key_raw = SheetRows[2].key_raw
    /\ DecNonZero(SheetRows[1].info.v_nota) /\ DecNonZero(SheetRows[2].info.v_nota)
    /\ session.totais_questor.valor_total =
          DecStr(DecAdd(SheetRows[1].info.v_nota, SheetRows[2].info.v_nota))
    /\ Len(cmp.scan) = 2 /\ SatInPeriod(1) /\ SatInPeriod(2) /\ SamePairKey(1, 2)
    /\ ScanView(1).v_nota # ScanView(2).v_nota
    /\ DecNonZero(ScanView(2).v_nota)
    /\ session.totais_sat.valor_total = DecStr(ScanView(1).v_nota)

---------------------------------------------------------------------------
\* Properties of the write buffers of sat_importar

\* the workbook rows request p has staged so far as inserts or as updates
StagedRows(p, kind) == { <<o.sheet, o.row>> : o \in { x \in imp[p].ops : x.op = kind } }

\* the places where the workbook row k was passed to a bulk write of the kind
WrittenAt(p, kind, k) ==
    UNION { { <<c, i>> : i \in { j \in 1..Len(imp[p].calls[c].objs) :
                                   imp[p].calls[c].objs[j] = k } } :
            c \in { d \in 1..Len(imp[p].calls) : imp[p].calls[d].kind = kind } }

\* the places where the workbook row k waits in a buffer
WaitingAt(buffer, k) ==
    { i \in 1..Len(buffer) : <<buffer[i].sheet, buffer[i].row>> = k }

BufferOf(p, kind) == IF kind = "create" THEN imp[p].to_create ELSE imp[p].to_update

\* every staged row of the kind is either waiting once and not written, or
\* written once and not waiting; nothing else waits or was written
OnceEach(p, kind) ==
    /\ \A k \in StagedRows(p, kind) :
          Cardinality(WrittenAt(p, kind, k)) + Cardinality(WaitingAt(BufferOf(p, kind), k)) = 1
    /\ \A c \in 1..Len(imp[p].calls) :
          imp[p].calls[c].kind = kind =>
              \A i \in 1..Len(imp[p].calls[c].objs) :
                  imp[p].calls[c].objs[i] \in StagedRows(p, kind)
    /\ \A i \in 1..Len(BufferOf(p, kind)) :
          <<BufferOf(p, kind)[i].sheet, BufferOf(p, kind)[i].row>> \in StagedRows(p, kind)

AllWritten(p, kind) ==
    \A k \in StagedRows(p, kind) : Cardinality(WrittenAt(p, kind, k)) = 1

\* C19: between the rows of an import each write buffer holds fewer than
\* BATCH staged records, every staged insert and every staged update is
\* passed to exactly one bulk write call, and once the import has completed
\* every staged record has been written.
C19_BatchedFlushing ==
    /\ imp[1].pc \in {"run", "flushed", "done"} =>
          /\ Len(imp[1].to_create) < BATCH
          /\ Len(imp[1].to_update) < BATCH
          /\ OnceEach(1, "create")
          /\ OnceEach(1, "update")
    /\ imp[1].pc \in {"flushed", "done"} =>
          /\ AllWritten(1, "create")
          /\ AllWritten(1, "update")

\* a completed import of more rows than a batch holds: a full batch was
\* written inside the loop and the remainder after it
C19_Witness ==
    /\ imp[1].pc = "done"
    /\ imp[1].flushes = 1
    /\ Len(imp[1].calls) = 2
    /\ Len(imp[1].calls[1].objs) = BATCH
    /\ Len(imp[1].calls[2].objs) = 1
    /\ imp[1].calls[1].kind = imp[1].calls[2].kind

---------------------------------------------------------------------------
\* Properties of the date filter

\* both ends of the period were given
RangeGiven == cmp.dt_ini # NoDate /\ cmp.dt_fim # NoDate

\* a date as a number that grows with the calendar
DayNumber(d) == d.y * 372 + d.m * 31 + d.d

\* the date parsed and lies in the period, its two ends included
DateKept(d) ==
    /\ d # NoDate
    /\ DayNumber(cmp.dt_ini) <= DayNumber(d)
    /\ DayNumber(d) <= DayNumber(cmp.dt_fim)

\* the elements of seq at the positions idx, in order
RECURSIVE Pick(_, _, _)
Pick(seq, idx, i) ==
    IF i > Len(seq) THEN <<>>
    ELSE (IF i \in idx THEN <<seq[i]>> ELSE <<>>) \o Pick(seq, idx, i + 1)

QKeptRows == { i \in 1..Len(SheetRows) : DateKept(SheetRows[i].info.dt_row) }
SatKeptRows == { i \in 1..Len(cmp.scan) : DateKept(ScanView(i).dt_em) }

\* the uploaded sheet and the scanned registry rows without the rows the
\* date filter excludes
KeptSheet == [headers |-> cmp.sheet.headers, rows |-> Pick(cmp.sheet.rows, QKeptRows, 1)]
KeptScan == Pick(cmp.scan, SatKeptRows, 1)

\* what the indexer and the request produce from the kept rows alone when no
\* period is given
KeptIndex == _questor_map_por_documento(QTable[KeptSheet], NoDate, NoDate)
KeptResult == Reconcile(QTable[KeptSheet], KeptIndex, KeptScan, NoDate, NoDate)

\* the stored result without the fields that repeat the period of the form
WithoutPeriod(res) == [res EXCEPT !.inicio = <<>>, !.fim = <<>>]

\* without the count of all the rows the indexer read
WithoutReadTotal(q) == [q EXCEPT !.lidas_total = 0]
WithoutMetaReadTotal(res) == [res EXCEPT !.meta.linhas_lidas_total = 0]

CmpIndexedOrLater == cmp.pc \in {"indexed", "warned", "stored"}

\* C20 as stated: with a period given, the lookup tables, counts, findings
\* and totals are those of the rows whose date parses and lies in the period,
\* ends included; a row with a missing, unparseable or outside date
\* contributes to nothing.
C20_FilteredRowsCountNowhere ==
    (CmpIndexedOrLater /\ RangeGiven) =>
        /\ cmp.q = KeptIndex
        /\ CmpStored => WithoutPeriod(session) = KeptResult

\* C20, amended: the same, except for the indexer's count of all the rows
\* read, which is taken before the filter.
C20_DateFilter ==
    (CmpIndexedOrLater /\ RangeGiven) =>
        /\ WithoutReadTotal(cmp.q) = WithoutReadTotal(KeptIndex)
        /\ CmpStored =>
              WithoutMetaReadTotal(WithoutPeriod(session)) = WithoutMetaReadTotal(KeptResult)

\* a stored result for a period whose ends are the date of a kept row, on
\* both sides, with a row left out on both sides
C20_Witness ==
    /\ CmpStored /\ RangeGiven
    /\ \E i \in QKeptRows :
          SheetRows[i].info.dt_row = cmp.dt_ini /\ SheetRows[i].info.dt_row = cmp.dt_fim
    /\ QKeptRows # 1..Len(SheetRows)
    /\ \E i \in SatKeptRows :
          ScanView(i).dt_em = cmp.dt_ini /\ ScanView(i).dt_em = cmp.dt_fim
    /\ SatKeptRows # 1..Len(cmp.scan)
    /\ session.sat_linhas_periodo = Cardinality(SatKeptRows)
    /\ session.resultado # <<>>

---------------------------------------------------------------------------
\* Properties of _first_key

FirstKeyCalled == calc.fn = "_first_key"

\* the positions of the candidates that equal a field-key, with the letters'
\* case as written and with the case ignored, and of those contained in a
\* lower-cased field-key
SameCaseAt(a) == { i \in 1..Len(a.candidates) : \E j \in 1..Len(a.keys) : a.keys[j] = a.candidates[i] }
AnyCaseAt(a) ==
    { i \in 1..Len(a.candidates) :
        \E j \in 1..Len(a.keys) : Lower(a.keys[j]) = Lower(a.candidates[i]) }
InsideAt(a) ==
    { i \in 1..Len(a.candidates) :
        \E j \in 1..Len(a.keys) : Contains(Lower(a.keys[j]), a.candidates[i]) }

Least(S) == CHOOSE i \in S : \A k \in S : i <= k

\* the field-keys that equal the candidate with the case ignored, and those
\* that contain it
KeysEqualTo(a, c) == { a.keys[j] : j \in { k \in 1..Len(a.keys) : Lower(a.keys[k]) = Lower(c) } }
KeysHolding(a, c) == { a.keys[j] : j \in { k \in 1..Len(a.keys) : Contains(Lower(a.keys[k]), c) } }

\* an exact hit, the letters' case as written, is returned before anything else
ExactSameCaseFirst ==
    (FirstKeyCalled /\ SameCaseAt(calc.arg) # {}) =>
        calc.out = calc.arg.candidates[Least(SameCaseAt(calc.arg))]

\* without any exact hit, with or without the case, the result is a key that
\* holds the first candidate contained in some key, or None
SubstringLast ==
    (FirstKeyCalled /\ AnyCaseAt(calc.arg) = {}) =>
        IF InsideAt(calc.arg) = {} THEN calc.out = NoneV
        ELSE calc.out \in KeysHolding(calc.arg, calc.arg.candidates[Least(InsideAt(calc.arg))])

\* an exact hit with the case ignored is returned before any substring hit
ExactAnyCaseSecond ==
    (FirstKeyCalled /\ SameCaseAt(calc.arg) = {} /\ AnyCaseAt(calc.arg) # {}) =>
        calc.out \in KeysEqualTo(calc.arg, calc.arg.candidates[Least(AnyCaseAt(calc.arg))])

---------------------------------------------------------------------------
\* Properties of the document classifier

ClassifierCalled == calc.fn = "_is_nfe_questor"

\* what a cell says: "receipt", "invoice" or "nothing"; the receipt marker
\* is looked for first. A code must be the whole kind cell and may be a part
\* of the model cell.
KindSays(cell) ==
    IF cell = <<>> THEN "nothing"
    ELSE IF Contains(_norm_txt(cell[1]), w_nfc) \/ _norm_txt(cell[1]) = w_65 THEN "receipt"
    ELSE IF Contains(_norm_txt(cell[1]), w_nfe) \/ _norm_txt(cell[1]) = w_55 THEN "invoice"
    ELSE "nothing"

ModelSays(cell) ==
    IF cell = <<>> THEN "nothing"
    ELSE IF Contains(_norm_txt(cell[1]), w_nfc) \/ Contains(_norm_txt(cell[1]), w_65)
    THEN "receipt"
    ELSE IF Contains(_norm_txt(cell[1]), w_nfe) \/ Contains(_norm_txt(cell[1]), w_55)
    THEN "invoice"
    ELSE "nothing"

AccessKeySays(cell) ==
    IF cell = <<>> THEN "nothing"
    ELSE IF Len(cell[1]) < 22 THEN "nothing"
    ELSE IF <<cell[1][21], cell[1][22]>> = w_55 THEN "invoice"
    ELSE IF <<cell[1][21], cell[1][22]>> = w_65 THEN "receipt"
    ELSE "nothing"

\* the first of the three that says something; "nothing" if none does
FirstSaying(a, b, c) == IF a # "nothing" THEN a ELSE IF b # "nothing" THEN b ELSE c

\* C22 as stated: the kind cell decides first; the model cell is consulted
\* only when the row has no kind field; the access key only if still
\* undetermined; the answer is no when nothing resolves.
C22_ModelOnlyWithoutKind ==
    ClassifierCalled =>
        calc.out = (FirstSaying(KindSays(calc.arg.kind),
                                IF calc.arg.kind = <<>> THEN ModelSays(calc.arg.model)
                                ELSE "nothing",
                                AccessKeySays(calc.arg.key)) = "invoice")

\* C22, amended: the model cell is consulted whenever the kind cell is
\* missing or carries no marker.
C22_ClassifierPrecedence ==
    ClassifierCalled =>
        calc.out = (FirstSaying(KindSays(calc.arg.kind), ModelSays(calc.arg.model),
                                AccessKeySays(calc.arg.key)) = "invoice")

\* a row whose kind cell is there without a marker and whose model cell
\* says invoice, against an access key that says receipt
C22_Witness ==
    /\ ClassifierCalled
    /\ calc.arg.kind = <<v_cupom>>
    /\ calc.arg.model = <<w_55>>
    /\ calc.arg.key = <<AccessKey(w_65, 44)>>
    /\ calc.out = TRUE

---------------------------------------------------------------------------
\* Properties of the counters of a stored result

\* C23: in every stored result, source rows in the period >= rows present in
\* the counterpart >= cancelled candidates; cancelled candidates = paired +
\* not found; the number of divergences <= paired.
C23_CountersConsistent ==
    CmpStored =>
        /\ session.sat_linhas_periodo >= session.sat_considerados
        /\ session.sat_considerados >= session.candidatos_cancelados
        /\ session.candidatos_cancelados = session.pareadas + session.nao_encontradas
        /\ Len(AllDivergencias) <= session.pareadas
        /\ Len(session.resultado) <= session.pareadas

\* a stored result with a row of the period that is not present and a
\* cancelled candidate that is paired without a divergence
C23_Witness ==
    /\ CmpStored
    /\ session.sat_linhas_periodo > session.sat_considerados
    /\ session.sat_considerados = session.candidatos_cancelados
    /\ session.candidatos_cancelados > 0
    /\ session.nao_encontradas = 0
    /\ session.pareadas > Len(session.resultado)

\* C24: a cancelled registry row that is present in one of the counterpart
\* key sets is always counted as paired and never as not found, so the
\* not-found count of every stored result is 0, also when the sum
\* accumulated for its key is exactly zero.
C24_NeverNotFound ==
    CmpStored => session.nao_encontradas = 0

---------------------------------------------------------------------------
\* Properties of the membership test

DigitSet == {"0","1","2","3","4","5","6","7","8","9"}
InDigitSet(c) == c \in DigitSet

\* a document number trimmed and lower-cased, and its digits alone
RawForm(t) == Lower(Strip(t))
DigitsForm(t) == SelectSeq(t, InDigitSet)

SameNumber(a, b) ==
    \/ RawForm(a) = RawForm(b)
    \/ DigitsForm(a) # <<>> /\ DigitsForm(a) = DigitsForm(b)

\* the document-number cell of row i of the uploaded sheet (its first column)
QNumberCell(i) == cmp.sheet.rows[i][1]

\* some accumulated row of the sheet has the document number of the scanned
\* registry row i
HasCounterpartRow(i) ==
    \E j \in 1..Len(cmp.sheet.rows) :
        /\ Accumulated(j)
        /\ QNumberCell(j) # NoneV
        /\ SameNumber(QNumberCell(j), ScanView(i).num_sat)

\* C25: a registry row is counted as present in the counterpart only if some
\* accumulated counterpart row has the same document number, raw or as a
\* non-empty digits-only form; document numbers without digits that differ
\* never match through the digits-only pair key.
C25_NoSpuriousPresence ==
    (CmpStored /\ cmp.sheet.headers = QColumns) =>
        /\ \A i \in 1..Len(cmp.scan) : IsPresent(cmp.scan[i]) => HasCounterpartRow(i)
        /\ session.sat_considerados <=
              Cardinality({ i \in 1..Len(cmp.scan) : HasCounterpartRow(i) })

---------------------------------------------------------------------------
\* Properties of the export

Exported == calc.fn = "comparar_questor_csv" /\ calc.arg # NoSession

\* the number a plain decimal string stands for: digits, with or without a
\* dot and digits after it
DotAt(s) == IF \E i \in 1..Len(s) : s[i] = "." THEN CHOOSE i \in 1..Len(s) : s[i] = "." ELSE 0
PlainValue(s) ==
    StripZeros(Dec(0, IntOf(SelectSeq(s, InDigitSet)),
                   IF DotAt(s) = 0 THEN 0 ELSE DotAt(s) - Len(s)))

\* C26: every number the export writes equals the numeric value of the
\* decimal string stored in the result: the matched Questor value and the SAT
\* total of each row, and the six period totals.
C26_ExportKeepsValues ==
    Exported =>
        /\ calc.out.tq.valor_total = PlainValue(calc.arg.totais_questor.valor_total)
        /\ calc.out.tq.bc_icms = PlainValue(calc.arg.totais_questor.bc_icms)
        /\ calc.out.tq.valor_icms = PlainValue(calc.arg.totais_questor.valor_icms)
        /\ calc.out.ts.valor_total = PlainValue(calc.arg.totais_sat.valor_total)
        /\ calc.out.ts.bc_icms = PlainValue(calc.arg.totais_sat.bc_icms)
        /\ calc.out.ts.valor_icms = PlainValue(calc.arg.totais_sat.valor_icms)
        /\ \A i \in 1..Len(calc.arg.resultado) :
              /\ calc.out.rows[i].valor_questor = PlainValue(calc.arg.resultado[i].valor_questor)
              /\ calc.out.rows[i].valor_sat = PlainValue(calc.arg.resultado[i].valor_sat)
        /\ \A i \in 1..Len(calc.arg.sat_autorizadas_fora) :
              calc.out.sat_aut[i].valor_sat = PlainValue(calc.arg.sat_autorizadas_fora[i].valor_sat)

---------------------------------------------------------------------------
\* Properties of the two readings of the Questor sheet

\* the sheet of the request reduced to the rows of idx
OnlyRows(idx) == [headers |-> cmp.sheet.headers, rows |-> Pick(cmp.sheet.rows, idx, 1)]

\* the document-number cell of row i is None (or the row has no such cell)
NullNumber(i) == SheetRows[i].info.raw_num = <<>>

\* C27: the aggregator of the Questor period totals and the Questor indexer
\* select the same rows: a row counts in the period totals exactly when it is
\* accumulated into the lookup tables, so the stored total is the sum over
\* the rows the indexer accumulates and the tables are those of the rows the
\* aggregator counts; a row whose document-number cell is None counts in
\* neither.
C27_SameRowsSelected ==
    CmpStored =>
        /\ \A i \in 1..Len(SheetRows) : QInPeriod(i) <=> Accumulated(i)
        /\ \A i \in 1..Len(SheetRows) : NullNumber(i) => (~QInPeriod(i) /\ ~Accumulated(i))
        /\ session.totais_questor.valor_total =
              DecStr(SumOfPicked([i \in 1..Len(SheetRows) |-> SheetRows[i].info.v_nota],
                                 { i \in 1..Len(SheetRows) : Accumulated(i) }, 1))
        /\ SameTablesAs(OnlyRows({ i \in 1..Len(SheetRows) : QInPeriod(i) }))
====
